---- MODULE Spec2Model ----
(***************************************************************************)
(* The asynchronous job pipeline of santa-mailroom: the jobs table used as *)
(* a work queue (app/job_queue.py), the claim / complete / enqueue         *)
(* operations, the dispatch layer and the worker and scheduler loops       *)
(* (app/worker.py), the safety-gated send handlers and the safety verdict  *)
(* (app/services/gpt_service.py).                                          *)
(*                                                                         *)
(* Tables are sequences; a row's id is its index.  A database transaction  *)
(* that the code commits in one piece is one step.  claim_next_job is two  *)
(* steps: the SELECT ... FOR UPDATE SKIP LOCKED, which takes the row lock, *)
(* and the UPDATE + COMMIT, which releases it.                             *)
(***************************************************************************)
EXTENDS Integers, Sequences, FiniteSets, TLC

VARIABLES
    jobs,          \* the jobs table (job_queue.Job rows)
    now,           \* the database clock (func.now()); utcnow() reads it too
    worker,        \* each run_worker loop: its position and its local `job`
    sched,         \* the run_scheduler loop: its position
    inbox,         \* messages the mail transport returns on a fetch
    letters,       \* the letters table
    replies,       \* the santa_replies table
    deeds,         \* the good_deeds table
    sentEmails,    \* the sent_emails table
    safety_on,     \* settings.email_safety_check_enabled
    lastRun,       \* what the latest handler invocation did
    wishItems,     \* the wish_items table
    shutdown_requested,  \* worker.shutdown_requested, set by the signal handler
    is_readonly,   \* users.is_readonly of the parent who calls the API
    children,      \* the children table (of the parent's family)
    family,        \* the parent's row of the families table
    deleted,       \* the rows deleted so far, as <<table, id>>
    response       \* the latest response of the API

vars == <<jobs, now, worker, sched, inbox, letters, replies, deeds,
          sentEmails, safety_on, lastRun, wishItems,
                   shutdown_requested,
                   is_readonly, children, family, deleted, response>>

-----------------------------------------------------------------------------
(* Bounds of the model *)

NumWorkers == 2
MaxJobs == 3
MaxOrderJobs == 4
MaxPoolJobs == 4
MaxSendJobs == 2
MaxDeeds == 1
MaxInbox == 2
MaxMailJobs == 3
MaxInitDeeds == 3
MaxHappyJobs == 4
MaxChildren == 2
MaxApiJobs == 1
MaxStarveJobs == 3

(* Program constants *)

DefaultMaxAttempts == 3
DefaultPriority == 0
SchedulerPriority == 1
TriggerPriority == 10
DeedJobPriority == 1

Workers == 1..NumWorkers
NoJob == 0
NoId == 0

-----------------------------------------------------------------------------
(* job_queue.JobStatus *)

PENDING == "pending"
PROCESSING == "processing"
COMPLETED == "completed"
FAILED == "failed"

JobStatus == {PENDING, PROCESSING, COMPLETED, FAILED}

(* The registry of task handlers, worker.TASK_HANDLERS *)
TASK_HANDLERS ==
    {"fetch_emails", "process_letter", "send_reply",
     "send_deed_email", "send_deed_congrats"}

(* A new row of the jobs table: Job(task_type, payload, priority) with the
   column defaults; created_at and scheduled_for take the server's now(). *)
NewJob(task_type, payload, priority, t) ==
    [task_type     |-> task_type,
     payload       |-> payload,
     status        |-> PENDING,
     priority      |-> priority,
     attempts      |-> 0,
     max_attempts  |-> DefaultMaxAttempts,
     error_message |-> "none",
     created_at    |-> t,
     started_at    |-> FALSE,
     completed_at  |-> FALSE,
     scheduled_for |-> t,
     locked_by     |-> 0,        \* the session holding the row lock, 0 = none
     claims        |-> 0,        \* history: times claim_next_job returned it
     calls         |-> 0,        \* history: times its handler was invoked
     raised        |-> 0]        \* history: times its handler raised

JobIds == 1..Len(jobs)

(* Mutant: the WHERE clause takes the rows left in processing as well *)
EligibleOrProcessing(j) ==
    /\ j.status \in {PENDING, PROCESSING}
    /\ j.scheduled_for <= now
    /\ j.attempts < j.max_attempts

(* Mutant: the WHERE clause takes every row that is not processing *)
EligibleNotProcessing(j) ==
    /\ j.status # PROCESSING
    /\ j.scheduled_for <= now
    /\ j.attempts < j.max_attempts

(* The WHERE clause of claim_next_job *)
Eligible(j) ==
    /\ j.status = PENDING
    /\ j.scheduled_for <= now
    /\ j.attempts < j.max_attempts

(* Mutant: ORDER BY priority ASC *)
BeforeAscending(a, b) ==
    \/ a.priority < b.priority
    \/ a.priority = b.priority /\ a.created_at < b.created_at

(* ORDER BY priority DESC, created_at ASC: a comes strictly before b *)
Before(a, b) ==
    \/ a.priority > b.priority
    \/ a.priority = b.priority /\ a.created_at < b.created_at

(* Mutant: the query does not skip the rows another session has locked *)
CandidatesNoSkip(w) ==
    {i \in JobIds : Eligible(jobs[i])}

(* The rows the SELECT of session w can return: eligible and, with
   FOR UPDATE SKIP LOCKED, not locked by another session. *)
Candidates(w) ==
    {i \in JobIds : Eligible(jobs[i]) /\ jobs[i].locked_by \in {0, w}}

(* .first() of the ordered query: a row no other candidate precedes.  Rows
   that tie on (priority, created_at) come in an order the database does
   not fix, so either may be first. *)
FirstCandidates(w) ==
    {i \in Candidates(w) :
        \A k \in Candidates(w) : ~Before(jobs[k], jobs[i])}

-----------------------------------------------------------------------------
(* The job store operations, worker.py *)

SetJob(i, row) == [jobs EXCEPT ![i] = row]

(* Mutant: the UPDATE leaves status as it was *)
ClaimedRowNoStatus(j, seen) ==
    [j EXCEPT !.started_at = TRUE,
              !.attempts = seen + 1,
              !.locked_by = 0,
              !.claims = @ + 1]

(* Mutant: the UPDATE does not count the attempt *)
ClaimedRowNoCount(j, seen) ==
    [j EXCEPT !.status = PROCESSING,
              !.started_at = TRUE,
              !.locked_by = 0,
              !.claims = @ + 1]

(* claim_next_job, the UPDATE: status, started_at and attempts as the ORM
   writes them, attempts from the value the SELECT read. *)
ClaimedRow(j, seen) ==
    [j EXCEPT !.status = PROCESSING,
              !.started_at = TRUE,
              !.attempts = seen + 1,
              !.locked_by = 0,
              !.claims = @ + 1]

(* Mutant: a job that raised is pending again with its attempts forgotten *)
CompleteJobRetriesForever(j, success, error) ==
    IF success
    THEN [j EXCEPT !.status = COMPLETED, !.completed_at = TRUE]
    ELSE [j EXCEPT !.status = PENDING,
                   !.attempts = 0,
                   !.claims = 0,
                   !.calls = 0,
                   !.raised = 0,
                   !.error_message = error,
                   !.completed_at = TRUE]

(* Mutant: a job is failed only once attempts exceed max_attempts *)
CompleteJobOffByOne(j, success, error) ==
    IF success
    THEN [j EXCEPT !.status = COMPLETED, !.completed_at = TRUE]
    ELSE [j EXCEPT !.status = IF j.attempts > j.max_attempts
                              THEN FAILED ELSE PENDING,
                   !.error_message = error,
                   !.completed_at = TRUE]

(* Mutant: a retry is pushed back (scheduled_for moves past now) *)
CompleteJobBackoff(j, success, error) ==
    IF success
    THEN [j EXCEPT !.status = COMPLETED, !.completed_at = TRUE]
    ELSE [j EXCEPT !.status = IF j.attempts >= j.max_attempts
                              THEN FAILED ELSE PENDING,
                   !.scheduled_for = IF j.attempts >= j.max_attempts
                                     THEN @ ELSE now + j.attempts,
                   !.error_message = error,
                   !.completed_at = TRUE]

(* complete_job(db, job, success, error) *)
CompleteJob(j, success, error) ==
    IF success
    THEN [j EXCEPT !.status = COMPLETED, !.completed_at = TRUE]
    ELSE [j EXCEPT !.status = IF j.attempts >= j.max_attempts
                              THEN FAILED ELSE PENDING,
                   !.error_message = error,
                   !.completed_at = TRUE]

(* enqueue_job(db, task_type, payload, priority), and the routers' own
   Job(...) inserts: one INSERT, stamped with the clock value t. *)
InsertJob(js, task_type, payload, priority, t) ==
    Append(js, NewJob(task_type, payload, priority, t))

(* How far the clock has moved since the previous insert.  Timestamps have
   microsecond resolution and every insert is its own transaction, so two
   rows normally differ; Ties also lets two inserts share a timestamp. *)
Distinct == {1}
Ties == {0, 1}

-----------------------------------------------------------------------------
(* The safety verdict, GPTService.check_email_safety *)

ABSENT == "absent"

(* What the classifier call yields: an exception (the call or the JSON
   parse), or a JSON object whose keys may be missing. *)
SafetyResponses ==
    {[err |-> TRUE, is_safe |-> ABSENT, recommendation |-> ABSENT]} \cup
    [err : {FALSE},
     is_safe : {"true", "false", ABSENT},
     recommendation : {"APPROVE", "BLOCK", ABSENT}]

(* data.get(key, default) on the parsed JSON *)
DataGet(value, default) == IF value = ABSENT THEN default ELSE value

(* Mutant: the verdict looks at is_safe alone *)
CheckEmailSafetyIsSafeOnly(resp) ==
    IF resp.err
    THEN FALSE
    ELSE DataGet(resp.is_safe, "false") = "true"

(* check_email_safety: is_safe of the returned pair.  An exception is
   caught and answered (False, reason). *)
CheckEmailSafety(resp) ==
    IF resp.err
    THEN FALSE
    ELSE /\ DataGet(resp.is_safe, "false") = "true"
         /\ DataGet(resp.recommendation, "None") = "APPROVE"

-----------------------------------------------------------------------------
(* The entity tables the handlers read and write, app/models.py *)

Children == {1, 2}

NewLetter(child_id, message_id) ==
    [child_id   |-> child_id,
     message_id |-> message_id,
     from_email |-> TRUE,
     status     |-> "pending",
     error_message |-> "none"]

NewReply(letter_id, body_text) ==
    [letter_id       |-> letter_id,
     body_text       |-> body_text,
     suggested_deed  |-> FALSE,
     delivery_status |-> "pending",
     delivery_error  |-> "none",
     sent_at         |-> FALSE]

NewDeed(child_id) ==
    [child_id  |-> child_id,
     completed |-> FALSE,
     suggested_in_reply_id    |-> NoId,
     acknowledged_in_reply_id |-> NoId]

(* hash_email: the address lower-cased and stripped, then SHA-256 (which
   keeps distinct addresses distinct) *)
LowerStrip(email) ==
    CASE email = "newchild@test.com" -> "newchild@test.com"
      [] email = "tommy@Test.com "   -> "tommy@test.com"
      [] OTHER                       -> email

hash_email(email) == <<"sha256", LowerStrip(email)>>

NewChild(name, email) ==
    [name |-> name, email_hash |-> hash_email(email)]

NoFamily == [id |-> NoId, name |-> ""]

NewFamily(name) == [id |-> 1, name |-> name]

NoResponse == [endpoint |-> "none", arg |-> NoId, status |-> 0]

(* The registered children of the pipeline's runs, and their parent's
   account: is_readonly has server_default 'false'. *)
InitAccount ==
    /\ is_readonly = FALSE
    /\ children = <<NewChild("Tommy", "tommy@test.com"),
                    NewChild("Anna", "anna@test.com")>>
    /\ family = NewFamily("Test Family")
    /\ deleted = {}
    /\ response = NoResponse

NewWishItem(letter_id, raw_text) ==
    [letter_id |-> letter_id,
     raw_text  |-> raw_text,
     status    |-> "pending"]

NewSentEmail(email_type, child_id, letter_id, reply_id, deed_id, body, status) ==
    [email_type      |-> email_type,
     child_id        |-> child_id,
     letter_id       |-> letter_id,
     santa_reply_id  |-> reply_id,
     deed_id         |-> deed_id,
     body_text       |-> body,
     delivery_status |-> status]

-----------------------------------------------------------------------------
(* What the collaborators answer during one handler invocation *)

GenBodies == {"bodyA", "bodyB"}

(* generate_deed_email / generate_deed_congrats_email catch every exception
   of the model call and answer a fixed text *)
FallbackBody == "fallback"

Envs ==
    [safety    : SafetyResponses,      \* the classifier's answer
     transport : BOOLEAN,              \* email_service.send_santa_reply
     gen       : GenBodies \cup {"error"}]  \* generate_deed_email / _congrats

NoResp == [err |-> FALSE, is_safe |-> ABSENT, recommendation |-> ABSENT]

(* What one handler invocation did: the content it had checked and the
   classifier's answer, the content it handed to the mail transport and
   what the transport answered, the statuses of the sent_emails rows it
   added, and how it ended. *)
NoRun ==
    [task |-> "none", job |-> NoJob, checked |-> "none", resp |-> NoResp,
     sent |-> "none", transport |-> "none", rows |-> <<>>,
     raised |-> FALSE, error |-> "none"]

(* The handler returns / raises, leaving these tables and this record *)
Returned(rs, ds, ls, se, enq, run) ==
    [raised |-> FALSE, error |-> "none", replies |-> rs, deeds |-> ds,
     letters |-> ls, sentEmails |-> se, wishItems |-> wishItems,
     enq |-> enq, run |-> run]

Raised(msg, rs, run) ==
    [raised |-> TRUE, error |-> msg, replies |-> rs, deeds |-> deeds,
     letters |-> letters, sentEmails |-> sentEmails,
     wishItems |-> wishItems, enq |-> <<>>,
     run |-> [run EXCEPT !.raised = TRUE, !.error = msg]]

(* Mutant: a blocked reply is raised to the dispatch layer as an error *)
BlockedReplyRaises(payload, run) ==
    Raised("Safety check failed",
           [replies EXCEPT ![payload].delivery_status = "blocked",
                           ![payload].delivery_error = "Safety check failed"],
           run)

(* handle_send_reply, the gate has blocked the reply: mark it, commit,
   return. *)
BlockedReply(payload, run) ==
    Returned([replies EXCEPT ![payload].delivery_status = "blocked",
                             ![payload].delivery_error = "Safety check failed"],
             deeds, letters, sentEmails, <<>>, run)

(* Mutant: the reply is stamped as sent before the transport's answer is
   looked at *)
SendFailedStamped(payload, run) ==
    Raised("Failed to send email",
           [replies EXCEPT ![payload].delivery_status = "failed",
                           ![payload].delivery_error = "Failed to send email",
                           ![payload].sent_at = TRUE],
           run)

(* Mutant: a failed send is recorded on the reply and the handler returns *)
SendFailedReturns(payload, run) ==
    Returned([replies EXCEPT ![payload].delivery_status = "failed",
                             ![payload].delivery_error = "Failed to send email"],
             deeds, letters, sentEmails, <<>>, run)

(* handle_send_reply, the transport answered False: mark the reply and
   raise.  The change to the reply is still pending in the session and is
   written by the commit of complete_job. *)
SendFailed(payload, run) ==
    Raised("Failed to send email",
           [replies EXCEPT ![payload].delivery_status = "failed",
                           ![payload].delivery_error = "Failed to send email"],
           run)

(* handle_send_reply(db, payload) *)
HandleSendReply(payload, e) ==
    LET run0 == [NoRun EXCEPT !.task = "send_reply"] IN
    IF payload = NoId
    THEN Raised("Missing reply_id in payload", replies, run0)
    ELSE IF payload \notin DOMAIN replies
    THEN Raised("Reply not found", replies, run0)
    ELSE
    LET reply == replies[payload]
        lid == reply.letter_id
    IN
    IF \/ lid \notin DOMAIN letters
       \/ letters[lid].child_id \notin Children
       \/ ~letters[lid].from_email
    THEN Raised("Missing data for reply", replies, run0)
    ELSE
    LET child == letters[lid].child_id
        is_safe == CheckEmailSafety(e.safety)
        run1 == IF safety_on
                THEN [run0 EXCEPT !.checked = reply.body_text, !.resp = e.safety]
                ELSE run0
    IN
    IF safety_on /\ ~is_safe
    THEN BlockedReply(payload, run1)
    ELSE
    LET run2 == [run1 EXCEPT !.sent = reply.body_text] IN
    IF e.transport
    THEN Returned([replies EXCEPT ![payload].delivery_status = "sent",
                                  ![payload].sent_at = TRUE],
                  deeds, letters,
                  Append(sentEmails,
                         NewSentEmail("letter_reply", child, lid, payload, NoId,
                                      reply.body_text, "sent")),
                  <<>>, [run2 EXCEPT !.rows = <<"sent">>, !.transport = "ok"])
    ELSE SendFailed(payload, [run2 EXCEPT !.transport = "failed"])

(* The child's letters (the deed handlers take the latest one's address) *)
LettersOf(child) == {l \in DOMAIN letters : letters[l].child_id = child}

(* ORDER BY received_at DESC .first(): letters are stored as they arrive *)
LastLetter(child) ==
    CHOOSE l \in LettersOf(child) : \A k \in LettersOf(child) : k <= l

(* handle_send_deed_email and handle_send_deed_congrats: the same steps, with
   their own classifier label, sent_emails type and error text. *)
HandleSendDeed(task, email_type, fail_msg, payload, e) ==
    LET run0 == [NoRun EXCEPT !.task = task] IN
    IF payload = NoId
    THEN Raised("Missing deed_id in payload", replies, run0)
    ELSE IF payload \notin DOMAIN deeds
    THEN Raised("Deed not found", replies, run0)
    ELSE IF deeds[payload].child_id \notin Children
    THEN Raised("Child not found", replies, run0)
    ELSE
    LET child == deeds[payload].child_id IN
    IF \/ LettersOf(child) = {}
       \/ ~letters[LastLetter(child)].from_email
    THEN Returned(replies, deeds, letters, sentEmails, <<>>, run0)
    ELSE
    LET email_body == IF e.gen = "error" THEN FallbackBody ELSE e.gen
        is_safe == CheckEmailSafety(e.safety)
        run1 == IF safety_on
                THEN [run0 EXCEPT !.checked = email_body, !.resp = e.safety]
                ELSE run0
    IN
    IF safety_on /\ ~is_safe
    THEN Returned(replies, deeds, letters,
                  Append(sentEmails,
                         NewSentEmail(email_type, child, NoId, NoId, payload,
                                      email_body, "blocked")),
                  <<>>, [run1 EXCEPT !.rows = <<"blocked">>])
    ELSE
    LET run2 == [run1 EXCEPT !.sent = email_body] IN
    IF e.transport
    THEN Returned(replies, deeds, letters,
                  Append(sentEmails,
                         NewSentEmail(email_type, child, NoId, NoId, payload,
                                      email_body, "sent")),
                  <<>>, [run2 EXCEPT !.rows = <<"sent">>, !.transport = "ok"])
    ELSE Raised(fail_msg, replies, [run2 EXCEPT !.transport = "failed"])

HandleSendDeedEmail(payload, e) ==
    HandleSendDeed("send_deed_email", "deed_suggestion",
                   "Failed to send deed notification email", payload, e)

HandleSendDeedCongrats(payload, e) ==
    HandleSendDeed("send_deed_congrats", "deed_congrats",
                   "Failed to send deed congratulations email", payload, e)

(* handle_fetch_emails(db, payload): for each fetched message, skip it when a
   letter already has its message_id or its sender is no registered child;
   otherwise store the letter and queue its process_letter job. *)
(* Mutant: the loop does not look for a letter with the message_id *)
RECURSIVE FetchLoopNoDedup(_, _, _)
FetchLoopNoDedup(msgs, ls, enq) ==
    IF msgs = <<>>
    THEN [letters |-> ls, enq |-> enq]
    ELSE
    LET m == Head(msgs) IN
    IF m.from_child \notin Children
    THEN FetchLoopNoDedup(Tail(msgs), ls, enq)
    ELSE FetchLoopNoDedup(Tail(msgs),
                   Append(ls, NewLetter(m.from_child, m.message_id)),
                   Append(enq, [task_type |-> "process_letter",
                                payload   |-> Len(ls) + 1,
                                priority  |-> DefaultPriority]))

(* The loop of handle_fetch_emails over the fetched messages *)
RECURSIVE FetchLoop(_, _, _)
FetchLoop(msgs, ls, enq) ==
    IF msgs = <<>>
    THEN [letters |-> ls, enq |-> enq]
    ELSE
    LET m == Head(msgs) IN
    IF \E l \in DOMAIN ls : ls[l].message_id = m.message_id
    THEN FetchLoop(Tail(msgs), ls, enq)
    ELSE IF m.from_child \notin Children
    THEN FetchLoop(Tail(msgs), ls, enq)
    ELSE FetchLoop(Tail(msgs),
                   Append(ls, NewLetter(m.from_child, m.message_id)),
                   Append(enq, [task_type |-> "process_letter",
                                payload   |-> Len(ls) + 1,
                                priority  |-> DefaultPriority]))

HandleFetchEmails(payload) ==
    LET r == FetchLoop(inbox, letters, <<>>) IN
    Returned(replies, deeds, r.letters, sentEmails, r.enq,
             [NoRun EXCEPT !.task = "fetch_emails"])

(* handle_fetch_emails when notify_new_letter raises for the first letter it
   stores: that letter is committed, its process_letter job is not queued,
   and the exception leaves the handler.  Without a new letter there is no
   notification and the handler returns. *)
RECURSIVE FetchLoopNotifyFails(_, _)
FetchLoopNotifyFails(msgs, ls) ==
    IF msgs = <<>>
    THEN [letters |-> ls, raised |-> FALSE]
    ELSE
    LET m == Head(msgs) IN
    IF \E l \in DOMAIN ls : ls[l].message_id = m.message_id
    THEN FetchLoopNotifyFails(Tail(msgs), ls)
    ELSE IF m.from_child \notin Children
    THEN FetchLoopNotifyFails(Tail(msgs), ls)
    ELSE [letters |-> Append(ls, NewLetter(m.from_child, m.message_id)),
          raised |-> TRUE]

HandleFetchEmailsNotifyFails(payload) ==
    LET r == FetchLoopNotifyFails(inbox, letters)
        run0 == [NoRun EXCEPT !.task = "fetch_emails"]
    IN
    IF r.raised
    THEN [Raised("notification failed", replies, run0)
             EXCEPT !.letters = r.letters]
    ELSE Returned(replies, deeds, r.letters, sentEmails, <<>>, run0)

(* What the collaborators of handle_process_letter answer: the extracted
   items, whether a deed is suggested, and the step that raises, if any:
   notify_moderation_flag in the moderation-flags loop ("flags"), the final
   commit, after the reply has been stored ("finish"), or enqueue_job, after
   the letter has been committed as processed ("enqueue"). *)
ExtractedItems == {<<>>, <<"a bicycle">>}

LetterEnvs ==
    [items : ExtractedItems,
     deed  : BOOLEAN,
     fault : {"none", "flags", "finish", "enqueue"}]

ReplyBody == "reply1"

(* Mutant: the query does not filter on acknowledged_in_reply_id *)
CompletedDeedsRestamped(child) ==
    {d \in DOMAIN deeds : /\ deeds[d].child_id = child
                          /\ deeds[d].completed}

(* The deeds process_letter acknowledges: the child's, completed, not yet
   acknowledged (completed_deeds, queried before the reply is generated) *)
CompletedDeeds(child) ==
    {d \in DOMAIN deeds : /\ deeds[d].child_id = child
                          /\ deeds[d].completed
                          /\ deeds[d].acknowledged_in_reply_id = NoId}

(* Mutant: an extracted item is stored only when the letter does not have
   it yet *)
InsertWishItemsOnce(wi, letter_id, items) ==
    wi \o SelectSeq([k \in 1..Len(items) |-> NewWishItem(letter_id, items[k])],
                    LAMBDA x : \A k \in DOMAIN wi : wi[k] # x)

(* handle_process_letter, step 1: a WishItem for every extracted item *)
InsertWishItems(wi, letter_id, items) ==
    wi \o [k \in 1..Len(items) |-> NewWishItem(letter_id, items[k])]

(* Mutant: santa_replies.letter_id is not unique *)
ReplyOfLetterNotUnique(letter_id) == FALSE

(* santa_replies.letter_id is unique: the INSERT of a second reply for the
   letter fails *)
ReplyOfLetter(letter_id) ==
    \E r \in DOMAIN replies : replies[r].letter_id = letter_id

(* Mutant: the reply is stored and no job is queued to send it *)
QueueReplyForgotten(rid) == <<>>

(* handle_process_letter, its last statement:
   enqueue_job(db, "send_reply", {"reply_id": santa_reply.id}) *)
QueueReply(rid) ==
    <<[task_type |-> "send_reply", payload |-> rid,
       priority |-> DefaultPriority]>>

(* handle_process_letter(db, payload).  What an exception leaves behind is
   what had been committed before it. *)
HandleProcessLetter(payload, e) ==
    LET run0 == [NoRun EXCEPT !.task = "process_letter"] IN
    IF payload = NoId
    THEN Raised("Missing letter_id in payload", replies, run0)
    ELSE IF payload \notin DOMAIN letters
    THEN Raised("Letter not found", replies, run0)
    ELSE IF letters[payload].child_id \notin Children
    THEN Raised("Child not found", replies, run0)
    ELSE
    LET child == letters[payload].child_id
        ls1 == [letters EXCEPT ![payload].status = "processing"]
        wi1 == InsertWishItems(wishItems, payload, e.items)
        acked == CompletedDeeds(child)
        rid == Len(replies) + 1
        rs1 == Append(replies, [NewReply(payload, ReplyBody) EXCEPT
                                   !.suggested_deed = e.deed])
    IN
    IF e.fault = "flags"
    THEN [Raised("notification failed", replies, run0)
             EXCEPT !.letters = ls1, !.wishItems = wi1]
    ELSE IF ReplyOfLetter(payload)
    THEN \* the commit of the INSERT raises
         [Raised("IntegrityError", replies, run0)
             EXCEPT !.letters = ls1, !.wishItems = wi1]
    ELSE IF e.fault = "finish"
    THEN [Raised("commit failed", rs1, run0)
             EXCEPT !.letters = ls1, !.wishItems = wi1]
    ELSE
    LET ds1 == [d \in DOMAIN deeds |->
                   IF d \in acked
                   THEN [deeds[d] EXCEPT !.acknowledged_in_reply_id = rid]
                   ELSE deeds[d]]
        ds2 == IF e.deed
               THEN Append(ds1, [NewDeed(child) EXCEPT
                                    !.suggested_in_reply_id = rid])
               ELSE ds1
        ls2 == [ls1 EXCEPT ![payload].status = "processed"]
    IN
    IF e.fault = "enqueue"
    THEN [Raised("enqueue failed", rs1, run0)
             EXCEPT !.letters = ls2, !.wishItems = wi1, !.deeds = ds2]
    ELSE
    [Returned(rs1, ds2, ls2, sentEmails, QueueReply(rid), run0)
        EXCEPT !.wishItems = wi1]

(* The collaborators a run may meet: what the mail, model and notification
   services can answer to each handler. *)
World ==
    [fetch  |-> {"none", "notify"},
     letter |-> LetterEnvs,
     send   |-> Envs]

(* The world in which every collaborator succeeds: notifications are
   stored, nothing raises, the classifier approves, the transport sends. *)
HappyWorld ==
    [fetch  |-> {"none"},
     letter |-> {e \in LetterEnvs : e.fault = "none"},
     send   |-> {e \in Envs : CheckEmailSafety(e.safety) /\ e.transport}]

(* handler(db, job.payload or {}) for the registered task types: every way
   the invocation can end, over what the collaborators may answer. *)
RunHandlerIn(task_type, payload, world) ==
    CASE task_type = "fetch_emails" ->
            {IF f = "notify" THEN HandleFetchEmailsNotifyFails(payload)
                             ELSE HandleFetchEmails(payload) :
                f \in world.fetch}
      [] task_type = "process_letter" ->
            {HandleProcessLetter(payload, e) : e \in world.letter}
      [] task_type = "send_reply" ->
            {HandleSendReply(payload, e) : e \in world.send}
      [] task_type = "send_deed_email" ->
            {HandleSendDeedEmail(payload, e) : e \in world.send}
      [] task_type = "send_deed_congrats" ->
            {HandleSendDeedCongrats(payload, e) : e \in world.send}

RunHandler(task_type, payload) == RunHandlerIn(task_type, payload, World)

RECURSIVE EnqueueAll(_, _, _)
EnqueueAll(js, enq, t) ==
    IF enq = <<>> THEN js
    ELSE EnqueueAll(InsertJob(js, Head(enq).task_type, Head(enq).payload,
                              Head(enq).priority, t),
                    Tail(enq), t)

-----------------------------------------------------------------------------
(* The worker loop, run_worker *)

Idle(w) == worker[w].pc \in {"poll", "sleep"}

(* Mutant: the loop does not look at the flag *)
LoopTestForever == "poll"

(* while not shutdown_requested: where the loop goes at the end of an
   iteration. "poll": the test has passed and claim_next_job is next. *)
LoopTest == IF shutdown_requested THEN "stopped" ELSE "poll"

(* claim_next_job, the SELECT ... FOR UPDATE SKIP LOCKED .first(): no row,
   and the loop sleeps; or the first candidate, now locked by this session. *)
SelectForUpdate(w) ==
    /\ worker[w].pc = "poll"
    /\ IF FirstCandidates(w) = {}
       THEN /\ worker' = [worker EXCEPT ![w] = [pc |-> "sleep", job |-> NoJob,
                                                seen |-> 0,
                                                completed_deeds |-> {}]]
            /\ jobs' = jobs
       ELSE \E i \in FirstCandidates(w) :
            /\ jobs' = SetJob(i, [jobs[i] EXCEPT !.locked_by = w])
            /\ worker' = [worker EXCEPT ![w] = [pc |-> "claiming", job |-> i,
                                                seen |-> jobs[i].attempts,
                                                completed_deeds |-> {}]]
    /\ UNCHANGED <<now, sched, inbox, letters, replies, deeds, sentEmails,
                   safety_on, lastRun, wishItems,
                   shutdown_requested,
                   is_readonly, children, family, deleted, response>>

(* claim_next_job, the UPDATE and COMMIT; the job is returned *)
CommitClaim(w) ==
    /\ worker[w].pc = "claiming"
    /\ LET i == worker[w].job IN
       /\ jobs' = SetJob(i, ClaimedRow(jobs[i], worker[w].seen))
       /\ worker' = [worker EXCEPT ![w].pc = "executing"]
    /\ UNCHANGED <<now, sched, inbox, letters, replies, deeds, sentEmails,
                   safety_on, lastRun, wishItems,
                   shutdown_requested,
                   is_readonly, children, family, deleted, response>>

(* f"Unknown task type: {job.task_type}" *)
UnknownTaskError(task_type) == "Unknown task type: " \o task_type

(* process_job(db, job): look the handler up; run it; complete_job; then
   db.close() and the loop test. *)
ProcessJobIn(w, world) ==
    /\ worker[w].pc = "executing"
    /\ LET i == worker[w].job
           j == jobs[i]
       IN
       IF j.task_type \notin TASK_HANDLERS
       THEN /\ jobs' = SetJob(i, CompleteJob(j, FALSE,
                                             UnknownTaskError(j.task_type)))
            /\ lastRun' = [NoRun EXCEPT !.task = "unknown", !.job = i]
            /\ UNCHANGED <<letters, replies, deeds, sentEmails, wishItems>>
       ELSE \E r \in RunHandlerIn(j.task_type, j.payload, world) :
            LET called == [j EXCEPT !.calls = @ + 1,
                                    !.raised = @ + (IF r.raised THEN 1 ELSE 0)]
                done == CompleteJob(called, ~r.raised, r.error)
            IN
            /\ jobs' = EnqueueAll(SetJob(i, done), r.enq, now)
            /\ letters' = r.letters
            /\ replies' = r.replies
            /\ deeds' = r.deeds
            /\ sentEmails' = r.sentEmails
            /\ wishItems' = r.wishItems
            /\ lastRun' = [r.run EXCEPT !.job = i]
    /\ worker' = [worker EXCEPT ![w] = [pc |-> LoopTest, job |-> NoJob,
                                        seen |-> 0, completed_deeds |-> {}]]
    /\ UNCHANGED <<now, sched, inbox, safety_on, shutdown_requested,
                   is_readonly, children, family, deleted, response>>

ProcessJob(w) == ProcessJobIn(w, World)

(* handle_process_letter at the grain of its commits, for a letter and a
   child that exist.  First the statements up to the queries that assemble
   the reply's context: the letter is committed as processing, the extracted
   items are committed, and completed_deeds is read. *)
ProcessLetterRead(w, e) ==
    /\ worker[w].pc = "executing"
    /\ LET i == worker[w].job
           l == jobs[i].payload
       IN
       /\ jobs[i].task_type = "process_letter"
       /\ l \in DOMAIN letters
       /\ letters[l].child_id \in Children
       /\ letters' = [letters EXCEPT ![l].status = "processing"]
       /\ wishItems' = InsertWishItems(wishItems, l, e.items)
       /\ worker' = [worker EXCEPT
                        ![w].pc = "generating",
                        ![w].completed_deeds =
                            CompletedDeeds(letters[l].child_id)]
    /\ UNCHANGED <<jobs, now, sched, inbox, replies, deeds, sentEmails,
                   safety_on, lastRun, shutdown_requested,
                   is_readonly, children, family, deleted, response>>

(* Then the rest: the reply is stored, the deeds read before are stamped
   with it, the suggested deed is added, the letter is committed as
   processed, the send_reply job is queued, and process_job completes the
   job. *)
ProcessLetterWrite(w, e) ==
    /\ worker[w].pc = "generating"
    /\ LET i == worker[w].job
           l == jobs[i].payload
           run0 == [NoRun EXCEPT !.task = "process_letter", !.job = i]
           called == [jobs[i] EXCEPT !.calls = @ + 1]
       IN
       IF ReplyOfLetter(l)
       THEN /\ jobs' = SetJob(i, CompleteJob([called EXCEPT !.raised = @ + 1],
                                             FALSE, "IntegrityError"))
            /\ lastRun' = [run0 EXCEPT !.raised = TRUE,
                                       !.error = "IntegrityError"]
            /\ UNCHANGED <<letters, replies, deeds>>
       ELSE
       LET child == letters[l].child_id
           rid == Len(replies) + 1
           ds1 == [d \in DOMAIN deeds |->
                      IF d \in worker[w].completed_deeds
                      THEN [deeds[d] EXCEPT !.acknowledged_in_reply_id = rid]
                      ELSE deeds[d]]
       IN
       /\ replies' = Append(replies, [NewReply(l, ReplyBody) EXCEPT
                                         !.suggested_deed = e.deed])
       /\ deeds' = IF e.deed
                   THEN Append(ds1, [NewDeed(child) EXCEPT
                                        !.suggested_in_reply_id = rid])
                   ELSE ds1
       /\ letters' = [letters EXCEPT ![l].status = "processed"]
       /\ jobs' = EnqueueAll(SetJob(i, CompleteJob(called, TRUE, "none")),
                             QueueReply(rid), now)
       /\ lastRun' = run0
    /\ worker' = [worker EXCEPT ![w] = [pc |-> LoopTest, job |-> NoJob,
                                        seen |-> 0, completed_deeds |-> {}]]
    /\ UNCHANGED <<now, sched, inbox, sentEmails, safety_on, wishItems,
                   shutdown_requested,
                   is_readonly, children, family, deleted, response>>

(* time.sleep(poll_interval) returns, then the loop test *)
Wake(w) ==
    /\ worker[w].pc = "sleep"
    /\ worker' = [worker EXCEPT ![w].pc = LoopTest]
    /\ UNCHANGED <<jobs, now, sched, inbox, letters, replies, deeds,
                   sentEmails, safety_on, lastRun, wishItems,
                   shutdown_requested,
                   is_readonly, children, family, deleted, response>>

(* The worker process ends without running on (killed, or the machine goes
   down): a row lock it holds goes with its session, what it has committed
   stays.  At least one other loop is left running. *)
Crash(w) ==
    /\ worker[w].pc \in {"poll", "sleep", "claiming", "executing"}
    /\ \E v \in Workers \ {w} : worker[v].pc # "crashed"
    /\ IF worker[w].pc = "claiming"
       THEN /\ jobs' = SetJob(worker[w].job,
                              [jobs[worker[w].job] EXCEPT !.locked_by = 0])
            /\ worker' = [worker EXCEPT ![w].pc = "crashed",
                                        ![w].job = NoJob]
       ELSE /\ jobs' = jobs
            /\ worker' = [worker EXCEPT ![w].pc = "crashed"]
    /\ UNCHANGED <<now, sched, inbox, letters, replies, deeds,
                   sentEmails, safety_on, lastRun, wishItems,
                   shutdown_requested,
                   is_readonly, children, family, deleted, response>>

(* signal_handler(signum, frame), on SIGINT or SIGTERM at any moment *)
SignalHandler ==
    /\ ~shutdown_requested
    /\ shutdown_requested' = TRUE
    /\ UNCHANGED <<jobs, now, worker, sched, inbox, letters, replies, deeds,
                   sentEmails, safety_on, lastRun, wishItems,
                   is_readonly, children, family, deleted, response>>

-----------------------------------------------------------------------------
(* The producers of jobs *)

(* enqueue_job(db, task_type, payload, priority), called with these inputs *)
EnqueueJob(task_type, payload, priority, cap, dts) ==
    /\ Len(jobs) < cap
    /\ \E dt \in dts :
       /\ now' = now + dt
       /\ jobs' = InsertJob(jobs, task_type, payload, priority, now + dt)
    /\ UNCHANGED <<worker, sched, inbox, letters, replies, deeds, sentEmails,
                   safety_on, lastRun, wishItems,
                   shutdown_requested,
                   is_readonly, children, family, deleted, response>>

(* handle_process_letter, its last statement: the send_reply job of the
   reply it has stored, one per reply. *)
QueueSending(r, cap, dts) ==
    /\ \A i \in JobIds :
          ~(jobs[i].task_type = "send_reply" /\ jobs[i].payload = r)
    /\ EnqueueJob("send_reply", r, DefaultPriority, cap, dts)

(* Mutant: the query looks for pending fetch_emails jobs only *)
FetchJobPending ==
    \E i \in JobIds : /\ jobs[i].task_type = "fetch_emails"
                      /\ jobs[i].status = PENDING

(* run_scheduler, the query: is a fetch_emails job pending or processing? *)
FetchJobExists ==
    \E i \in JobIds : /\ jobs[i].task_type = "fetch_emails"
                      /\ jobs[i].status \in {PENDING, PROCESSING}

SchedulerQuery(cap) ==
    /\ sched = "query"
    /\ ~shutdown_requested
    /\ Len(jobs) < cap
    /\ sched' = IF FetchJobExists THEN "query" ELSE "enqueue"
    /\ UNCHANGED <<jobs, now, worker, inbox, letters, replies, deeds,
                   sentEmails, safety_on, lastRun, wishItems,
                   shutdown_requested,
                   is_readonly, children, family, deleted, response>>

(* run_scheduler, the enqueue of the fetch_emails job, then the sleep *)
SchedulerEnqueue(cap, dts) ==
    /\ sched = "enqueue"
    /\ Len(jobs) < cap
    /\ sched' = "query"
    /\ \E dt \in dts :
       /\ now' = now + dt
       /\ jobs' = InsertJob(jobs, "fetch_emails", NoId, SchedulerPriority,
                            now + dt)
    /\ UNCHANGED <<worker, inbox, letters, replies, deeds, sentEmails,
                   safety_on, lastRun, wishItems,
                   shutdown_requested,
                   is_readonly, children, family, deleted, response>>

(* POST /api/admin/fetch-emails, main.trigger_email_fetch *)
TriggerEmailFetch(cap, dts) ==
    EnqueueJob("fetch_emails", NoId, TriggerPriority, cap, dts)

(* The API of the parents.  Every request is authenticated; the
   dependency an endpoint declares decides whether a read-only user may
   call it. *)

(* app.auth.get_current_user: the authenticated user, read-only or not *)
get_current_user == 200

(* app.auth.require_write_access: 403 for a user with is_readonly *)
require_write_access == IF is_readonly THEN 403 ELSE get_current_user

Respond(endpoint, arg, status) ==
    response' = [endpoint |-> endpoint, arg |-> arg, status |-> status]

(* A request answered without a change to the database *)
Answer(endpoint, arg, status) ==
    /\ Respond(endpoint, arg, status)
    /\ UNCHANGED <<jobs, now, worker, sched, inbox, letters, replies, deeds,
                   sentEmails, safety_on, lastRun, wishItems,
                   shutdown_requested, is_readonly, children, family,
                   deleted>>

(* get_family_child_ids *)
get_family_child_ids ==
    IF family = NoFamily THEN {}
    ELSE {c \in DOMAIN children : <<"children", c>> \notin deleted}

(* GET /api/children, routers/children.list_children *)
ListChildren ==
    IF get_current_user # 200
    THEN Answer("list_children", NoId, get_current_user)
    ELSE Answer("list_children", NoId, 200)

(* GET /api/children/{child_id}, routers/children.get_child *)
GetChild(child_id) ==
    IF get_current_user # 200
    THEN Answer("get_child", child_id, get_current_user)
    ELSE IF family = NoFamily \/ child_id \notin get_family_child_ids
    THEN Answer("get_child", child_id, 404)
    ELSE Answer("get_child", child_id, 200)

(* GET /api/family, routers/family.get_family *)
GetFamily ==
    IF get_current_user # 200
    THEN Answer("get_family", NoId, get_current_user)
    ELSE IF family = NoFamily
    THEN Answer("get_family", NoId, 404)
    ELSE Answer("get_family", NoId, 200)

(* GET /api/wishlist and GET /api/deeds, list_wish_items and
   list_good_deeds, with the optional child_id filter (NoId: none) *)
ListOf(endpoint, child_id) ==
    IF get_current_user # 200
    THEN Answer(endpoint, child_id, get_current_user)
    ELSE IF get_family_child_ids = {}
    THEN Answer(endpoint, child_id, 200)
    ELSE IF child_id # NoId /\ child_id \notin get_family_child_ids
    THEN Answer(endpoint, child_id, 403)
    ELSE Answer(endpoint, child_id, 200)

(* POST /api/children, routers/children.create_child *)
CreateChild(name, email) ==
    /\ Len(children) < MaxChildren
    /\ IF get_current_user # 200
       THEN Answer("create_child", NoId, get_current_user)
       ELSE IF family = NoFamily
       THEN Answer("create_child", NoId, 404)
       ELSE IF \E c \in get_family_child_ids :
                   children[c].email_hash = hash_email(email)
       THEN Answer("create_child", NoId, 400)
       ELSE /\ children' = Append(children, NewChild(name, email))
            /\ Respond("create_child", Len(children) + 1, 201)
            /\ UNCHANGED <<jobs, now, worker, sched, inbox, letters, replies,
                           deeds, sentEmails, safety_on, lastRun, wishItems,
                           shutdown_requested, is_readonly, family, deleted>>

(* PUT /api/children/{child_id}, routers/children.update_child *)
UpdateChild(child_id, name) ==
    IF get_current_user # 200
    THEN Answer("update_child", child_id, get_current_user)
    ELSE IF family = NoFamily \/ child_id \notin get_family_child_ids
    THEN Answer("update_child", child_id, 404)
    ELSE /\ children' = [children EXCEPT ![child_id].name = name]
         /\ Respond("update_child", child_id, 200)
         /\ UNCHANGED <<jobs, now, worker, sched, inbox, letters, replies,
                        deeds, sentEmails, safety_on, lastRun, wishItems,
                        shutdown_requested, is_readonly, family, deleted>>

(* The rows db.delete(child) removes: the child, and by cascade its
   letters with their wish items and reply, and its good deeds *)
Cascade(child_id) ==
    LET ls == {l \in DOMAIN letters : letters[l].child_id = child_id} IN
    {<<"children", child_id>>}
    \cup {<<"letters", l>> : l \in ls}
    \cup {<<"wish_items", i>> :
             i \in {k \in DOMAIN wishItems : wishItems[k].letter_id \in ls}}
    \cup {<<"santa_replies", r>> :
             r \in {k \in DOMAIN replies : replies[k].letter_id \in ls}}
    \cup {<<"good_deeds", d>> :
             d \in {k \in DOMAIN deeds : deeds[k].child_id = child_id}}

(* DELETE /api/children/{child_id}, routers/children.delete_child *)
DeleteChild(child_id) ==
    IF get_current_user # 200
    THEN Answer("delete_child", child_id, get_current_user)
    ELSE IF family = NoFamily \/ child_id \notin get_family_child_ids
    THEN Answer("delete_child", child_id, 404)
    ELSE /\ deleted' = deleted \cup Cascade(child_id)
         /\ Respond("delete_child", child_id, 204)
         /\ UNCHANGED <<jobs, now, worker, sched, inbox, letters, replies,
                        deeds, sentEmails, safety_on, lastRun, wishItems,
                        shutdown_requested, is_readonly, children, family>>

(* POST /api/family, routers/family.create_family *)
CreateFamily(name) ==
    IF require_write_access # 200
    THEN Answer("create_family", NoId, require_write_access)
    ELSE IF family # NoFamily
    THEN Answer("create_family", NoId, 400)
    ELSE /\ family' = NewFamily(name)
         /\ Respond("create_family", NoId, 201)
         /\ UNCHANGED <<jobs, now, worker, sched, inbox, letters, replies,
                        deeds, sentEmails, safety_on, lastRun, wishItems,
                        shutdown_requested, is_readonly, children, deleted>>

(* PUT /api/family, routers/family.update_family *)
UpdateFamily(name) ==
    IF require_write_access # 200
    THEN Answer("update_family", NoId, require_write_access)
    ELSE IF family = NoFamily
    THEN Answer("update_family", NoId, 404)
    ELSE /\ family' = [family EXCEPT !.name = name]
         /\ Respond("update_family", NoId, 200)
         /\ UNCHANGED <<jobs, now, worker, sched, inbox, letters, replies,
                        deeds, sentEmails, safety_on, lastRun, wishItems,
                        shutdown_requested, is_readonly, children, deleted>>

(* PUT /api/wishlist/{item_id}, routers/wishlist.update_wish_item *)
UpdateWishItem(item_id, status) ==
    IF get_current_user # 200
    THEN Answer("update_wish_item", item_id, get_current_user)
    ELSE IF \/ item_id \notin DOMAIN wishItems
            \/ <<"wish_items", item_id>> \in deleted
            \/ letters[wishItems[item_id].letter_id].child_id
                   \notin get_family_child_ids
    THEN Answer("update_wish_item", item_id, 404)
    ELSE IF status \notin {"pending", "approved", "denied"}
    THEN Answer("update_wish_item", item_id, 400)
    ELSE /\ wishItems' = [wishItems EXCEPT ![item_id].status = status]
         /\ Respond("update_wish_item", item_id, 200)
         /\ UNCHANGED <<jobs, now, worker, sched, inbox, letters, replies,
                        deeds, sentEmails, safety_on, lastRun,
                        shutdown_requested, is_readonly, children, family,
                        deleted>>

(* POST /api/deeds, routers/deeds.create_good_deed: the deed, then (with
   send_email) its send_deed_email job. *)
CreateGoodDeed(child, send_email, cap, dts) ==
    /\ Len(jobs) < cap
    /\ Len(deeds) < MaxDeeds
    /\ IF require_write_access # 200
       THEN Answer("create_good_deed", child, require_write_access)
       ELSE IF child \notin get_family_child_ids
       THEN Answer("create_good_deed", child, 403)
       ELSE /\ deeds' = Append(deeds, NewDeed(child))
            /\ IF send_email
               THEN \E dt \in dts :
                    /\ now' = now + dt
                    /\ jobs' = InsertJob(jobs, "send_deed_email",
                                         Len(deeds) + 1, DeedJobPriority,
                                         now + dt)
               ELSE UNCHANGED <<jobs, now>>
            /\ Respond("create_good_deed", child, 201)
            /\ UNCHANGED <<worker, sched, inbox, letters, replies,
                           sentEmails, safety_on, lastRun, wishItems,
                           shutdown_requested, is_readonly, children, family,
                           deleted>>

(* POST /api/deeds/{id}/complete, routers/deeds.complete_good_deed *)
CompleteGoodDeed(d, send_email, cap, dts) ==
    /\ Len(jobs) < cap
    /\ IF require_write_access # 200
       THEN Answer("complete_good_deed", d, require_write_access)
       ELSE IF \/ d \notin DOMAIN deeds
               \/ <<"good_deeds", d>> \in deleted
               \/ deeds[d].child_id \notin get_family_child_ids
       THEN Answer("complete_good_deed", d, 404)
       ELSE /\ deeds' = [deeds EXCEPT ![d].completed = TRUE]
            /\ IF send_email
               THEN \E dt \in dts :
                    /\ now' = now + dt
                    /\ jobs' = InsertJob(jobs, "send_deed_congrats", d,
                                         DeedJobPriority, now + dt)
               ELSE UNCHANGED <<jobs, now>>
            /\ Respond("complete_good_deed", d, 200)
            /\ UNCHANGED <<worker, sched, inbox, letters, replies,
                           sentEmails, safety_on, lastRun, wishItems,
                           shutdown_requested, is_readonly, children, family,
                           deleted>>

(* The account is made read-only (the column is set in the database) *)
SetReadonly ==
    /\ ~is_readonly
    /\ is_readonly' = TRUE
    /\ UNCHANGED <<jobs, now, worker, sched, inbox, letters, replies, deeds,
                   sentEmails, safety_on, lastRun, wishItems,
                   shutdown_requested, children, family, deleted, response>>

-----------------------------------------------------------------------------
(* The worker loops' steps *)

WorkerStep(w) ==
    \/ SelectForUpdate(w)
    \/ CommitClaim(w)
    \/ ProcessJob(w)
    \/ Wake(w)

(* The same loop where every collaborator succeeds *)
HappyWorkerStep(w) ==
    \/ SelectForUpdate(w)
    \/ CommitClaim(w)
    \/ ProcessJobIn(w, HappyWorld)
    \/ Wake(w)

IdleWorkers ==
    [w \in Workers |-> [pc |-> "poll", job |-> NoJob, seen |-> 0,
                        completed_deeds |-> {}]]

(* The queue with its loops started on an empty database *)
Init ==
    /\ jobs = <<>>
    /\ now = 0
    /\ worker = IdleWorkers
    /\ sched = "query"
    /\ inbox = <<>>
    /\ letters = <<>>
    /\ replies = <<>>
    /\ deeds = <<>>
    /\ sentEmails = <<>>
    /\ safety_on = TRUE
    /\ lastRun = NoRun
    /\ wishItems = <<>>
    /\ shutdown_requested = FALSE
    /\ InitAccount

(* A call of enqueue_job whose job can never succeed: a send_reply job
   without reply_id.  (The scheduler's fetch_emails jobs always succeed.) *)
QueueInputs ==
    {[task_type |-> "send_reply", payload |-> NoId]}

Next ==
    \/ \E w \in Workers : WorkerStep(w)
    \/ SchedulerQuery(MaxJobs)
    \/ SchedulerEnqueue(MaxJobs, Distinct)
    \/ \E inp \in QueueInputs :
          EnqueueJob(inp.task_type, inp.payload, DefaultPriority, MaxJobs,
                     Distinct)

Spec == Init /\ [][Next]_vars

-----------------------------------------------------------------------------
(* The send handlers at work: the state process_letter leaves behind (a
   processed letter and its reply, still to be sent), the send_reply job it
   queues, and the deeds the parents create and complete. *)

InitSend ==
    /\ jobs = <<>>
    /\ now = 0
    /\ worker = IdleWorkers
    /\ sched = "query"
    /\ inbox = <<>>
    /\ letters = <<[NewLetter(1, "m1") EXCEPT !.status = "processed"]>>
    /\ replies = <<NewReply(1, "reply1")>>
    /\ deeds = <<>>
    /\ sentEmails = <<>>
    /\ safety_on \in BOOLEAN
    /\ lastRun = NoRun
    /\ wishItems = <<>>
    /\ shutdown_requested = FALSE
    /\ InitAccount

(* One worker loop: what a send handler does is decided within a single
   invocation. *)
SendWorkers == {1}

NextSend ==
    \/ \E w \in SendWorkers : WorkerStep(w)
    \/ \E r \in DOMAIN replies : QueueSending(r, MaxSendJobs, Distinct)
    \/ \E send_email \in BOOLEAN :
          CreateGoodDeed(1, send_email, MaxSendJobs, Distinct)
    \/ \E d \in DOMAIN deeds, send_email \in BOOLEAN :
          CompleteGoodDeed(d, send_email, MaxSendJobs, Distinct)

SpecSend == InitSend /\ [][NextSend]_vars

-----------------------------------------------------------------------------
(* The queue fed by enqueue_job with jobs whose handler always succeeds
   (fetch_emails on an empty mailbox), at two priorities. *)

OrderPriorities == {1, 5}

NextOrder ==
    \/ \E w \in Workers : WorkerStep(w)
    \/ \E p \in OrderPriorities :
          EnqueueJob("fetch_emails", NoId, p, MaxOrderJobs, Ties)

SpecOrder == Init /\ [][NextOrder]_vars

(* Every worker loop keeps running: run_worker loops until shutdown *)
WorkersRun == \A w \in Workers : WF_vars(WorkerStep(w))

(* The queue fed by the manual trigger alone: every job is a fetch_emails
   job, whose handler succeeds. *)
NextPool ==
    \/ \E w \in Workers : WorkerStep(w)
    \/ TriggerEmailFetch(MaxPoolJobs, Distinct)

SpecPool == Init /\ [][NextPool]_vars

FairSpecPool == SpecPool /\ WorkersRun

FairSpec == Spec /\ WorkersRun

-----------------------------------------------------------------------------
(* The mailroom: messages arrive in the mailbox (which a fetch does not
   empty), the scheduler queues fetch_emails jobs, and one worker loop runs
   the fetch_emails, process_letter and send_reply jobs. *)

NoChild == 0

(* The messages that may arrive: from the registered child or from an
   unregistered address, under two Message-IDs. *)
Messages ==
    [message_id : {"m1", "m2"}, from_child : {1, NoChild}]

(* A message is delivered to the mailbox *)
Arrive(m) ==
    /\ Len(inbox) < MaxInbox
    /\ inbox' = Append(inbox, m)
    /\ UNCHANGED <<jobs, now, worker, sched, letters, replies, deeds,
                   sentEmails, safety_on, lastRun, wishItems,
                   shutdown_requested,
                   is_readonly, children, family, deleted, response>>

MailWorkers == {1}

(* The fetch may meet a failing notification; the letters it stores are
   processed and answered by collaborators that succeed. *)
MailWorld == [HappyWorld EXCEPT !.fetch = {"none", "notify"}]

MailWorkerStep(w) ==
    \/ SelectForUpdate(w)
    \/ CommitClaim(w)
    \/ ProcessJobIn(w, MailWorld)
    \/ Wake(w)

NextMail ==
    \/ \E w \in MailWorkers : MailWorkerStep(w)
    \/ SchedulerQuery(MaxMailJobs)
    \/ SchedulerEnqueue(MaxMailJobs, Distinct)
    \/ \E m \in Messages : Arrive(m)

SpecMail == Init /\ [][NextMail]_vars

-----------------------------------------------------------------------------
(* The mailroom when every collaborator succeeds, with the scheduler and
   one worker loop that keep running. *)

SchedulerStep(cap) ==
    \/ SchedulerQuery(cap)
    \/ SchedulerEnqueue(cap, Distinct)

NextHappy ==
    \/ \E w \in MailWorkers : HappyWorkerStep(w)
    \/ SchedulerStep(MaxHappyJobs)
    \/ \E m \in Messages : Arrive(m)

SpecHappy == Init /\ [][NextHappy]_vars

(* run_worker and run_scheduler loop until shutdown *)
FairSpecHappy ==
    /\ SpecHappy
    /\ \A w \in MailWorkers : WF_vars(HappyWorkerStep(w))
    /\ WF_vars(SchedulerStep(MaxHappyJobs))

-----------------------------------------------------------------------------
(* process_letter at work: the state a fetch leaves behind when a child who
   has written before writes again (the earlier letter processed and
   answered, the new letter pending with its process_letter job queued),
   with the good deeds the family has by then. *)

(* A deed row as the routers and earlier process_letter runs leave it: of
   either child, open, completed, or completed and acknowledged in the
   earlier reply. *)
DeedRows ==
    {[NewDeed(c) EXCEPT !.completed = k[1], !.acknowledged_in_reply_id = k[2]] :
        c \in Children, k \in {<<FALSE, NoId>>, <<TRUE, NoId>>, <<TRUE, 1>>}}

RECURSIVE SeqsUpTo(_, _)
SeqsUpTo(S, n) ==
    IF n = 0 THEN {<<>>}
    ELSE LET shorter == SeqsUpTo(S, n - 1) IN
         shorter \cup {Append(q, x) : q \in shorter, x \in S}

InitLetter ==
    /\ jobs = <<NewJob("process_letter", 2, DefaultPriority, 1)>>
    /\ now = 1
    /\ worker = IdleWorkers
    /\ sched = "query"
    /\ inbox = <<>>
    /\ letters = <<[NewLetter(1, "m1") EXCEPT !.status = "processed"],
                   NewLetter(1, "m2")>>
    /\ replies = <<[NewReply(1, ReplyBody) EXCEPT !.delivery_status = "sent",
                                                  !.sent_at = TRUE]>>
    /\ deeds \in SeqsUpTo(DeedRows, MaxInitDeeds)
    /\ sentEmails = <<NewSentEmail("letter_reply", 1, 1, 1, NoId, ReplyBody,
                                   "sent")>>
    /\ safety_on = TRUE
    /\ lastRun = NoRun
    /\ wishItems = <<>>
    /\ shutdown_requested = FALSE
    /\ InitAccount

(* Any step of process_letter may raise; the reply it stores is sent by
   collaborators that succeed. *)
LetterWorld == [HappyWorld EXCEPT !.letter = LetterEnvs]

LetterWorkerStep(w) ==
    \/ SelectForUpdate(w)
    \/ CommitClaim(w)
    \/ ProcessJobIn(w, LetterWorld)
    \/ Wake(w)

NextLetter == \E w \in MailWorkers : LetterWorkerStep(w)

SpecLetter == InitLetter /\ [][NextLetter]_vars

-----------------------------------------------------------------------------
(* The queue holding jobs of a task type that has no registered handler *)

UnknownTypes == {"send_sms"}

NextUnknown ==
    \/ \E w \in Workers : WorkerStep(w)
    \/ \E t \in UnknownTypes :
          EnqueueJob(t, NoId, DefaultPriority, MaxJobs, Distinct)

SpecUnknown == Init /\ [][NextUnknown]_vars

-----------------------------------------------------------------------------
(* The worker loops and a termination signal: jobs that succeed
   (fetch_emails) and jobs that raise (send_reply without reply_id) enter
   the queue, and SIGINT or SIGTERM arrives at any moment. *)

NextStop ==
    \/ \E w \in Workers : WorkerStep(w)
    \/ TriggerEmailFetch(MaxJobs, Distinct)
    \/ \E inp \in QueueInputs :
          EnqueueJob(inp.task_type, inp.payload, DefaultPriority, MaxJobs,
                     Distinct)
    \/ SignalHandler

SpecStop == Init /\ [][NextStop]_vars

FairSpecStop == SpecStop /\ WorkersRun

-----------------------------------------------------------------------------
(* The API in the hands of one parent, whose account is made read-only at
   some moment: a parent with a family, a child and a letter of the child
   with a wish item; the good deeds are those the parent creates. *)

ChildNames == {"New Child", "Updated Name"}
Emails == {"newchild@test.com", "tommy@Test.com "}
FamilyNames == {"Hacked Family Name"}
WishStatuses == {"approved", "granted"}
ChildArgs == 1 .. MaxChildren
ListEndpoints == {"list_wish_items", "list_good_deeds"}

InitApi ==
    /\ jobs = <<>>
    /\ now = 0
    /\ worker = IdleWorkers
    /\ sched = "query"
    /\ inbox = <<>>
    /\ replies = <<>>
    /\ sentEmails = <<>>
    /\ safety_on = TRUE
    /\ lastRun = NoRun
    /\ shutdown_requested = FALSE
    /\ is_readonly = FALSE
    /\ deleted = {}
    /\ response = NoResponse
    /\ family = NewFamily("Test Family")
    /\ children = <<NewChild("Tommy", "tommy@test.com")>>
    /\ letters = <<[NewLetter(1, "m1") EXCEPT !.status = "processed"]>>
    /\ wishItems = <<NewWishItem(1, "a bicycle")>>
    /\ deeds = <<>>

NextApi ==
    \/ SetReadonly
    \/ ListChildren
    \/ GetFamily
    \/ \E c \in ChildArgs : GetChild(c)
    \/ \E e \in ListEndpoints, c \in ChildArgs \cup {NoId} : ListOf(e, c)
    \/ \E n \in ChildNames, e \in Emails : CreateChild(n, e)
    \/ \E c \in ChildArgs, n \in ChildNames : UpdateChild(c, n)
    \/ \E c \in ChildArgs : DeleteChild(c)
    \/ \E n \in FamilyNames : CreateFamily(n)
    \/ \E n \in FamilyNames : UpdateFamily(n)
    \/ \E i \in 1 .. 2, st \in WishStatuses : UpdateWishItem(i, st)
    \/ \E c \in ChildArgs, send_email \in BOOLEAN :
          CreateGoodDeed(c, send_email, MaxApiJobs, {1})
    \/ \E d \in 1 .. MaxDeeds, send_email \in BOOLEAN :
          CompleteGoodDeed(d, send_email, MaxApiJobs, {1})

SpecApi == InitApi /\ [][NextApi]_vars

-----------------------------------------------------------------------------
(* process_letter retried on a letter whose extraction gives the same two
   items at every execution, with any step after it raising. *)

LetterItems == <<"a bicycle", "a puppy">>

RetryWorld ==
    [HappyWorld EXCEPT !.letter = [items : {LetterItems},
                                   deed  : BOOLEAN,
                                   fault : {"none", "flags", "finish",
                                            "enqueue"}]]

RetryWorkerStep(w) ==
    \/ SelectForUpdate(w)
    \/ CommitClaim(w)
    \/ ProcessJobIn(w, RetryWorld)
    \/ Wake(w)

NextRetry == \E w \in MailWorkers : RetryWorkerStep(w)

SpecRetry == InitLetter /\ [][NextRetry]_vars

-----------------------------------------------------------------------------
(* Two worker loops and two letters of one child, each with its
   process_letter job, while the child has a completed deed that no reply
   has acknowledged yet.  Every collaborator succeeds. *)

InitRace ==
    /\ jobs = <<NewJob("process_letter", 1, DefaultPriority, 1),
                NewJob("process_letter", 2, DefaultPriority, 2)>>
    /\ now = 2
    /\ worker = IdleWorkers
    /\ sched = "query"
    /\ inbox = <<>>
    /\ letters = <<NewLetter(1, "m1"), NewLetter(1, "m2")>>
    /\ replies = <<>>
    /\ deeds = <<[NewDeed(1) EXCEPT !.completed = TRUE]>>
    /\ sentEmails = <<>>
    /\ safety_on = TRUE
    /\ lastRun = NoRun
    /\ wishItems = <<>>
    /\ shutdown_requested = FALSE
    /\ InitAccount

(* process_job for the jobs of the other task types *)
ProcessOther(w) ==
    /\ worker[w].pc = "executing"
    /\ jobs[worker[w].job].task_type # "process_letter"
    /\ ProcessJobIn(w, HappyWorld)

RaceWorkerStep(w) ==
    \/ SelectForUpdate(w)
    \/ CommitClaim(w)
    \/ \E e \in HappyWorld.letter : ProcessLetterRead(w, e)
    \/ \E e \in HappyWorld.letter : ProcessLetterWrite(w, e)
    \/ ProcessOther(w)
    \/ Wake(w)

NextRace == \E w \in Workers : RaceWorkerStep(w)

SpecRace == InitRace /\ [][NextRace]_vars

-----------------------------------------------------------------------------
(* Every producer of fetch_emails jobs at once: the scheduler loop and the
   manual trigger endpoint, with the worker loops. *)

NextFetch ==
    \/ \E w \in Workers : WorkerStep(w)
    \/ SchedulerQuery(MaxJobs)
    \/ SchedulerEnqueue(MaxJobs, Distinct)
    \/ TriggerEmailFetch(MaxJobs, Distinct)

SpecFetch == Init /\ [][NextFetch]_vars

-----------------------------------------------------------------------------
(* The queue under a stream of manual triggers that does not end: jobs that
   raise enter at the default priority, and POST /api/admin/fetch-emails is
   called again and again.  The table is kept finite by dropping the row of
   a job that has ended when a new row is inserted: claim_next_job never
   reads such a row. *)

(* main.trigger_email_fetch, the new row taking in the model the place of
   the row of a job that has ended *)
TriggerEmailFetchReusing(i) ==
    /\ jobs[i].status \in {COMPLETED, FAILED}
    /\ jobs' = SetJob(i, NewJob("fetch_emails", NoId, TriggerPriority, now))
    /\ UNCHANGED <<now, worker, sched, inbox, letters, replies, deeds,
                   sentEmails, safety_on, lastRun, wishItems,
                   shutdown_requested,
                   is_readonly, children, family, deleted, response>>

NextStarve ==
    \/ \E w \in Workers : WorkerStep(w)
    \/ \E inp \in QueueInputs :
          EnqueueJob(inp.task_type, inp.payload, DefaultPriority,
                     MaxStarveJobs, Distinct)
    \/ TriggerEmailFetch(MaxStarveJobs, Distinct)
    \/ \E i \in JobIds : TriggerEmailFetchReusing(i)

SpecStarve == Init /\ [][NextStarve]_vars

FairSpecStarve == SpecStarve /\ WorkersRun

-----------------------------------------------------------------------------
(* The queue when a worker process may end at any moment: the scheduler
   loop, the worker loops, and enqueue_job calls whose jobs raise. *)

NextCrash ==
    \/ \E w \in Workers : WorkerStep(w)
    \/ \E w \in Workers : Crash(w)
    \/ SchedulerStep(MaxJobs)
    \/ \E inp \in QueueInputs :
          EnqueueJob(inp.task_type, inp.payload, DefaultPriority, MaxJobs,
                     Distinct)

SpecCrash == Init /\ [][NextCrash]_vars

(* run_worker and run_scheduler loop until shutdown *)
FairSpecCrash ==
    /\ SpecCrash
    /\ WorkersRun
    /\ WF_vars(SchedulerStep(MaxJobs))

-----------------------------------------------------------------------------
(* Who holds a job *)

Holds(w, i) == worker[w].pc \in {"claiming", "executing"} /\ worker[w].job = i

Executing(w, i) == worker[w].pc = "executing" /\ worker[w].job = i

Terminal(j) == j.status \in {COMPLETED, FAILED}

(* C1: at any instant at most one worker holds a given job in processing,
   and claim_next_job never returns the same row twice for one attempt:
   every return of a row is an attempt of its own. *)
C1_MutualExclusion ==
    /\ \A w1, w2 \in Workers :
          (w1 # w2 /\ worker[w1].job # NoJob) => worker[w1].job # worker[w2].job
    /\ \A i \in JobIds :
          /\ jobs[i].claims = jobs[i].attempts
          /\ Cardinality({w \in Workers : Executing(w, i)}) <= 1
          /\ jobs[i].status = PROCESSING <=> \E w \in Workers : Executing(w, i)

(* Two workers are processing two different jobs at once, while a third
   row is still to be claimed *)
C1_Witness ==
    /\ \A w \in Workers : worker[w].pc = "executing"
    /\ \E i \in JobIds : jobs[i].status = PENDING

(* C2: with several worker loops and several pending jobs whose handlers
   succeed, every job's handler is invoked at most once, a finished job is
   completed after exactly one invocation, none fails, and every job that
   enters the queue ends completed. *)
C2_Safety ==
    \A i \in JobIds :
        /\ jobs[i].calls <= 1
        /\ jobs[i].status # FAILED
        /\ jobs[i].status = COMPLETED =>
              jobs[i].calls = 1 /\ jobs[i].attempts = 1
        /\ jobs[i].status = PENDING => jobs[i].calls = 0

C2_ExactlyOnce ==
    /\ []C2_Safety
    /\ \A i \in 1..MaxPoolJobs :
          (i \in JobIds) ~> (i \in JobIds /\ jobs[i].status = COMPLETED)

(* Both workers have run handlers at once and several jobs are completed *)
C2_Witness ==
    /\ Len(jobs) >= NumWorkers
    /\ \A i \in JobIds : jobs[i].status = COMPLETED /\ jobs[i].calls = 1
    /\ lastRun.task = "fetch_emails"

(* C3: claim_next_job returns the row that is first by (priority
   descending, created_at ascending) among the rows that are pending, due
   and have attempts left (a row another session's claim has locked is
   already being claimed and is skipped), and returns no row only when there
   is none; with priorities [1,5,1,5] enqueued in that order the rows are
   claimed in the order 2, 4, 1, 3. *)
Claimable(w, k) ==
    /\ jobs[k].status = "pending"
    /\ jobs[k].scheduled_for <= now
    /\ jobs[k].attempts < jobs[k].max_attempts
    /\ jobs[k].locked_by \notin Workers \ {w}

ComesFirst(k, i) ==
    \/ jobs[k].priority > jobs[i].priority
    \/ /\ jobs[k].priority = jobs[i].priority
       /\ jobs[k].created_at < jobs[i].created_at

Table1515 ==
    /\ Len(jobs) = 4
    /\ [i \in 1..4 |-> jobs[i].priority] = <<1, 5, 1, 5>>
    /\ \A i \in 1..3 : jobs[i].created_at < jobs[i + 1].created_at

Taken(i) == jobs[i].claims > 0 \/ jobs[i].locked_by # 0

C3_ClaimStep(w) ==
    /\ (Idle(w) /\ worker'[w].pc = "claiming") =>
          LET i == worker'[w].job IN
          /\ Claimable(w, i)
          /\ \A k \in JobIds : Claimable(w, k) => ~ComesFirst(k, i)
          /\ Table1515 =>
                /\ i = 4 => Taken(2)
                /\ i = 1 => Taken(2) /\ Taken(4)
                /\ i = 3 => Taken(2) /\ Taken(4) /\ Taken(1)
    /\ (worker[w].pc = "poll" /\ worker'[w].pc = "sleep") =>
          \A k \in JobIds : ~Claimable(w, k)

C3_ClaimOrder == [][\A w \in Workers : C3_ClaimStep(w)]_vars

(* Of the four jobs [1,5,1,5], the two of priority 5 have been claimed, job 1
   is being claimed and job 3 still waits; and a worker has found no row. *)
C3_Witness ==
    /\ Table1515
    /\ jobs[2].claims = 1 /\ jobs[4].claims = 1
    /\ jobs[1].locked_by # 0 /\ jobs[1].claims = 0
    /\ jobs[3].status = PENDING /\ jobs[3].claims = 0 /\ jobs[3].locked_by = 0

(* C4: a job whose handler raises on every invocation is claimed and
   attempted exactly max_attempts times, then is failed; it is never
   completed, and a failed job is never claimed or changed again. *)
AlwaysRaises(j) == j.task_type = "send_reply" /\ j.payload = NoId

C4_Safety ==
    \A i \in JobIds :
        /\ jobs[i].status = COMPLETED => jobs[i].raised < jobs[i].calls
        /\ AlwaysRaises(jobs[i]) =>
              /\ jobs[i].raised = jobs[i].calls
              /\ jobs[i].calls <= jobs[i].max_attempts
              /\ jobs[i].status = FAILED =>
                    /\ jobs[i].claims = jobs[i].max_attempts
                    /\ jobs[i].calls = jobs[i].max_attempts
              /\ (jobs[i].status = PENDING /\ jobs[i].locked_by = 0) =>
                    jobs[i].calls = jobs[i].attempts
                    /\ jobs[i].attempts < jobs[i].max_attempts

C4_RetryExhaustion ==
    /\ []C4_Safety
    /\ [][\A i \in JobIds : jobs[i].status = FAILED => jobs'[i] = jobs[i]]_vars
    /\ \A i \in 1..MaxJobs :
          (i \in JobIds /\ AlwaysRaises(jobs[i]))
             ~> (i \in JobIds /\ jobs[i].status = FAILED)

(* A job without reply_id has failed after three raising invocations, and
   the workers have gone on to other work *)
C4_Witness ==
    \E i \in JobIds :
        /\ AlwaysRaises(jobs[i])
        /\ jobs[i].status = FAILED
        /\ jobs[i].raised = DefaultMaxAttempts
        /\ jobs[i].error_message = "Missing reply_id in payload"
        /\ \A w \in Workers : worker[w].pc = "sleep"

-----------------------------------------------------------------------------
(* The safety gate of the send handlers *)

SendTasks == {"send_reply", "send_deed_email", "send_deed_congrats"}

(* The classifier answered, and answered is_safe = true and APPROVE *)
Passing(resp) ==
    /\ ~resp.err
    /\ resp.is_safe = "true"
    /\ resp.recommendation = "APPROVE"

(* The latest invocation was a send handler that consulted the classifier *)
Checked == lastRun.task \in SendTasks /\ lastRun.checked # "none"

(* C5: with safety-checking enabled, a send handler hands a content to the
   mail transport only after the classifier, asked about that same content
   in the same invocation, answered is_safe = true and APPROVE; after any
   other answer, or an error of the call, it makes no send call. *)
C5_SafetyGate ==
    (safety_on /\ lastRun.task \in SendTasks) =>
        /\ lastRun.sent # "none" =>
              /\ lastRun.checked = lastRun.sent
              /\ Passing(lastRun.resp)
        /\ (Checked /\ ~Passing(lastRun.resp)) =>
              /\ lastRun.sent = "none"
              /\ \A k \in DOMAIN lastRun.rows : lastRun.rows[k] # "sent"

(* With the gate enabled a congratulations email has been checked and sent *)
C5_Witness ==
    /\ safety_on
    /\ lastRun.task = "send_deed_congrats"
    /\ lastRun.sent = "bodyB"
    /\ lastRun.checked = "bodyB"
    /\ lastRun.rows = <<"sent">>

(* C6 (as the claim states it): when the classifier answers is_safe = false
   for a reply, handle_send_reply leaves the reply blocked, makes no send
   call, and writes exactly one sent_emails row, of status blocked. *)
C6_BlockedReplyAudited ==
    (/\ lastRun.task = "send_reply"
     /\ lastRun.checked # "none"
     /\ ~lastRun.resp.err
     /\ lastRun.resp.is_safe = "false") =>
        LET r == jobs[lastRun.job].payload IN
        /\ replies[r].delivery_status = "blocked"
        /\ lastRun.sent = "none"
        /\ lastRun.rows = <<"blocked">>
        /\ Cardinality({k \in DOMAIN sentEmails :
                           /\ sentEmails[k].santa_reply_id = r
                           /\ sentEmails[k].delivery_status = "blocked"}) = 1

(* C7: a send job whose content the gate blocks, an error of the classifier
   call included, raises nothing: the job is completed by that invocation,
   and a completed job is never pending again nor claimed again. *)
C7_Safety ==
    (Checked /\ ~Passing(lastRun.resp)) =>
        /\ ~lastRun.raised
        /\ jobs[lastRun.job].status = COMPLETED
        /\ jobs[lastRun.job].error_message # "Safety check failed"
        /\ jobs[lastRun.job].calls = jobs[lastRun.job].attempts

C7_BlockedCompletes ==
    /\ []C7_Safety
    /\ [][\A i \in JobIds :
             jobs[i].status = COMPLETED => jobs'[i] = jobs[i]]_vars

(* The classifier call failed for a reply on the job's first attempt: the
   reply is blocked and the job completed *)
C7_Witness ==
    /\ lastRun.task = "send_reply"
    /\ lastRun.checked # "none"
    /\ lastRun.resp.err
    /\ jobs[lastRun.job].status = COMPLETED
    /\ jobs[lastRun.job].attempts = 1
    /\ replies[jobs[lastRun.job].payload].delivery_status = "blocked"

-----------------------------------------------------------------------------
(* The life of a job row *)

(* C8: complete_job sets completed when the handler returned; when it
   raised, failed if attempts >= max_attempts and otherwise pending again
   with scheduled_for unchanged, so that the row is at once eligible for the
   next claim; the error is recorded on failure. *)
C8_Step(w) ==
    (worker[w].pc = "executing" /\ worker'[w].pc = "poll") =>
        LET i == worker[w].job
            before == jobs[i]
            after == jobs'[i]
        IN
        /\ lastRun'.job = i
        /\ after.scheduled_for = before.scheduled_for
        /\ after.attempts = before.attempts
        /\ ~lastRun'.raised =>
              /\ after.status = "completed"
              /\ after.error_message = before.error_message
        /\ lastRun'.raised =>
              /\ after.error_message = lastRun'.error
              /\ before.attempts >= before.max_attempts =>
                    after.status = "failed"
              /\ before.attempts < before.max_attempts =>
                    /\ after.status = "pending"
                    /\ after.scheduled_for <= now'
                    /\ after.locked_by = 0
                    /\ i \in Candidates(w)'

C8_CompleteJob == [][\A w \in Workers : C8_Step(w)]_vars

(* A send_reply job whose transport failed once is pending again with the
   error recorded, and a worker has already locked it for the next attempt;
   an earlier deed job has failed for good. *)
C8_Witness ==
    /\ \E i \in JobIds :
          /\ jobs[i].task_type = "send_reply"
          /\ jobs[i].status = PENDING
          /\ jobs[i].attempts = 1
          /\ jobs[i].error_message = "Failed to send email"
          /\ jobs[i].locked_by # 0
    /\ \E k \in JobIds :
          /\ jobs[k].status = FAILED
          /\ jobs[k].attempts = DefaultMaxAttempts

(* C9: a job's status changes only pending -> processing (claim) and
   processing -> completed | pending | failed (complete); a failed or
   completed job never changes status again; new rows are pending. *)
StatusMove(a, b) ==
    \/ a = b
    \/ a = "pending" /\ b = "processing"
    \/ a = "processing" /\ b \in {"completed", "pending", "failed"}

C9_Lifecycle ==
    [][/\ \A i \in JobIds : StatusMove(jobs[i].status, jobs'[i].status)
       /\ \A i \in DOMAIN jobs' \ JobIds : jobs'[i].status = "pending"
       /\ Len(jobs') >= Len(jobs)]_vars

(* One job failed after its retries, one completed, and the scheduler has
   queued the next fetch *)
C9_Witness ==
    /\ \E i \in JobIds : jobs[i].status = FAILED /\ jobs[i].attempts = 3
    /\ \E i \in JobIds : jobs[i].status = COMPLETED
    /\ \E i \in JobIds : jobs[i].status = PENDING /\ jobs[i].claims = 0
                         /\ jobs[i].task_type = "fetch_emails"

(* C10: attempts <= max_attempts in every state; attempts changes only when
   a row is claimed, by exactly one, and a row whose attempts have reached
   max_attempts is never claimed. *)
C10_Step ==
    \A i \in JobIds :
        /\ (jobs[i].status = "pending" /\ jobs'[i].status = "processing") =>
              /\ jobs'[i].attempts = jobs[i].attempts + 1
              /\ jobs[i].attempts < jobs[i].max_attempts
        /\ jobs'[i].attempts # jobs[i].attempts =>
              (jobs[i].status = "pending" /\ jobs'[i].status = "processing")
        /\ jobs'[i].max_attempts = jobs[i].max_attempts

C10_AttemptsBounded ==
    /\ [](\A i \in JobIds : jobs[i].attempts <= jobs[i].max_attempts)
    /\ [][C10_Step]_vars

(* A job is in its last allowed attempt *)
C10_Witness ==
    \E i \in JobIds :
        /\ jobs[i].status = PROCESSING
        /\ jobs[i].attempts = jobs[i].max_attempts

-----------------------------------------------------------------------------
(* The mailroom *)

LettersWith(id) == {l \in DOMAIN letters : letters[l].message_id = id}

Stored(m) == LettersWith(m.message_id) # {}

(* The step is a run of the fetch_emails handler *)
FetchRun ==
    /\ lastRun'.task = "fetch_emails"
    /\ \E w \in Workers : worker[w].pc = "executing" /\ worker'[w].pc # "executing"

(* C11: however often the fetch_emails handler runs over a mailbox that
   still holds a message, there is exactly one letter for its message_id:
   never two, one once a run over it has returned, and a run that meets a
   message whose letter is stored changes nothing for that message (no
   letter, no process_letter job). *)
C11_Step ==
    FetchRun =>
        /\ \A l \in DOMAIN letters : letters'[l] = letters[l]
        /\ \A k \in DOMAIN inbox :
              Stored(inbox[k]) =>
                 /\ LettersWith(inbox[k].message_id)' =
                       LettersWith(inbox[k].message_id)
                 /\ \A i \in DOMAIN jobs' \ DOMAIN jobs :
                       jobs'[i].payload \notin LettersWith(inbox[k].message_id)
        /\ (\A k \in DOMAIN inbox : Stored(inbox[k])
                                     \/ inbox[k].from_child \notin Children) =>
              (letters' = letters /\ Len(jobs') = Len(jobs))
        /\ ~lastRun'.raised =>
              \A k \in DOMAIN inbox :
                 inbox[k].from_child \in Children =>
                    Cardinality(LettersWith(inbox[k].message_id)') = 1

C11_FetchIdempotent ==
    /\ [](\A m \in Messages : Cardinality(LettersWith(m.message_id)) <= 1)
    /\ [][C11_Step]_vars

(* The mailbox holds the same Message-ID twice, two fetch_emails jobs have
   run over it, and one letter is stored *)
C11_Witness ==
    /\ Len(inbox) = 2
    /\ inbox[1].message_id = inbox[2].message_id
    /\ inbox[1].from_child \in Children
    /\ Cardinality({i \in JobIds : /\ jobs[i].task_type = "fetch_emails"
                                   /\ jobs[i].status = COMPLETED
                                   /\ jobs[i].created_at > 1}) >= 1
    /\ Cardinality({i \in JobIds : /\ jobs[i].task_type = "fetch_emails"
                                   /\ jobs[i].status = COMPLETED}) >= 2
    /\ Len(letters) = 1

(* C12 (as the claim states it): at any time at most one fetch_emails job
   is pending or processing, whatever the scheduler, the workers and the
   manual trigger endpoint do. *)
LiveFetchJobs ==
    {i \in JobIds : /\ jobs[i].task_type = "fetch_emails"
                    /\ jobs[i].status \in {PENDING, PROCESSING}}

C12_SingleFetchJob == Cardinality(LiveFetchJobs) <= 1

-----------------------------------------------------------------------------
(* process_letter *)

(* C13 (as the claim states it): when a step of process_letter raises, the
   letter is left failed with an error message and the exception reaches
   the dispatch layer; so the letter of a process_letter job that has ended
   failed is failed, with an error message. *)
LetterMarkedFailed(l) ==
    /\ letters[l].status = "failed"
    /\ letters[l].error_message # "none"

C13_FailedLetterMarked ==
    /\ (/\ lastRun.task = "process_letter"
        /\ lastRun.raised
        /\ jobs[lastRun.job].payload \in DOMAIN letters) =>
          /\ LetterMarkedFailed(jobs[lastRun.job].payload)
          /\ jobs[lastRun.job].raised > 0
    /\ \A i \in JobIds :
          (/\ jobs[i].task_type = "process_letter"
           /\ jobs[i].status = FAILED
           /\ jobs[i].payload \in DOMAIN letters) =>
              LetterMarkedFailed(jobs[i].payload)

-----------------------------------------------------------------------------
(* Sending the reply *)

(* The latest invocation was handle_send_reply, it called the mail
   transport, and the transport did not send *)
ReplySendFailed ==
    /\ lastRun.task = "send_reply"
    /\ lastRun.sent # "none"
    /\ lastRun.transport = "failed"

(* C14: when the transport's send fails in handle_send_reply, the stored
   reply has delivery_status failed and the error, the handler has raised,
   and the job has taken the failure path: pending again while attempts
   remain, failed otherwise, with the error recorded. *)
C14_Step ==
    ReplySendFailed' /\ lastRun'.job \in JobIds /\
    (\E w \in Workers : worker[w].pc = "executing"
                        /\ worker[w].job = lastRun'.job
                        /\ worker'[w].pc # "executing") =>
        LET i == lastRun'.job
            r == jobs[i].payload
        IN
        /\ replies'[r].delivery_status = "failed"
        /\ replies'[r].delivery_error = "Failed to send email"
        /\ replies'[r].sent_at = replies[r].sent_at
        /\ lastRun'.raised
        /\ jobs'[i].error_message = "Failed to send email"
        /\ jobs'[i].status = IF jobs[i].attempts < jobs[i].max_attempts
                             THEN PENDING ELSE FAILED
        /\ sentEmails' = sentEmails

C14_TransportFailure == [][C14_Step]_vars

(* The send of a reply has failed on each of the job's three attempts: the
   reply is failed and so is the job *)
C14_Witness ==
    /\ ReplySendFailed
    /\ jobs[lastRun.job].status = FAILED
    /\ jobs[lastRun.job].raised = DefaultMaxAttempts
    /\ replies[jobs[lastRun.job].payload].delivery_status = "failed"

(* C15: in every state a reply has sent_at set only if a send of the mail
   transport for it returned success, and then its delivery_status is sent
   and a sent_emails row of status sent references it. *)
SentRows(r) ==
    {k \in DOMAIN sentEmails : /\ sentEmails[k].santa_reply_id = r
                               /\ sentEmails[k].email_type = "letter_reply"
                               /\ sentEmails[k].delivery_status = "sent"}

C15_Stamped ==
    \A r \in DOMAIN replies :
        replies[r].sent_at =>
            /\ replies[r].delivery_status = "sent"
            /\ SentRows(r) # {}

C15_Stamping ==
    \A r \in DOMAIN replies :
        (~replies[r].sent_at /\ replies'[r].sent_at) =>
            /\ lastRun'.task = "send_reply"
            /\ jobs[lastRun'.job].payload = r
            /\ lastRun'.transport = "ok"
            /\ lastRun'.sent = replies[r].body_text

C15_SentAt == []C15_Stamped /\ [][C15_Stamping]_vars

(* A reply whose first send failed has been sent by the retry *)
C15_Witness ==
    \E r \in DOMAIN replies :
        /\ replies[r].sent_at
        /\ replies[r].delivery_status = "sent"
        /\ replies[r].delivery_error = "Failed to send email"
        /\ Cardinality(SentRows(r)) = 1

-----------------------------------------------------------------------------
(* Acknowledging good deeds *)

(* The step is a run of the process_letter handler *)
LetterRun ==
    /\ lastRun'.task = "process_letter"
    /\ \E w \in Workers : /\ worker[w].pc = "executing"
                          /\ worker[w].job = lastRun'.job
                          /\ worker'[w].pc # "executing"

(* C16: when process_letter generates a new reply for a child, every deed
   of that child that is completed and not yet acknowledged is stamped with
   the new reply's id, and every deed that is already acknowledged, not
   completed, or of another child is left as it was.  (A run that raises
   before its final commit leaves every deed as it was.) *)
C16_Step ==
    LetterRun =>
        IF lastRun'.raised /\ lastRun'.error # "enqueue failed"
        THEN deeds' = deeds
        ELSE
        LET l == jobs[lastRun'.job].payload
            child == letters[l].child_id
            rid == Len(replies')
        IN
        /\ Len(replies') = Len(replies) + 1
        /\ replies'[rid].letter_id = l
        /\ \A d \in DOMAIN deeds :
              IF /\ deeds[d].child_id = child
                 /\ deeds[d].completed
                 /\ deeds[d].acknowledged_in_reply_id = NoId
              THEN deeds'[d] = [deeds[d] EXCEPT !.acknowledged_in_reply_id = rid]
              ELSE deeds'[d] = deeds[d]
        /\ \A d \in DOMAIN deeds' \ DOMAIN deeds :
              /\ deeds'[d].suggested_in_reply_id = rid
              /\ deeds'[d].child_id = child
              /\ deeds'[d].acknowledged_in_reply_id = NoId

C16_Acknowledgment == [][C16_Step]_vars

(* Two completed deeds of the child have been stamped with the new reply,
   next to a deed acknowledged in the earlier reply, which was left alone *)
C16_Witness ==
    /\ lastRun.task = "process_letter"
    /\ ~lastRun.raised
    /\ Len(replies) = 2
    /\ Cardinality({d \in DOMAIN deeds :
                       /\ deeds[d].child_id = 1
                       /\ deeds[d].acknowledged_in_reply_id = 2}) = 2
    /\ deeds[1].child_id = 1 /\ deeds[1].acknowledged_in_reply_id = 1

-----------------------------------------------------------------------------
(* Dispatch *)

(* C17 (as the claim states it): a job whose task_type has no registered
   handler is a terminal failure: once it has been dispatched it is failed,
   with error_message "unknown task type", after that single attempt. *)
Dispatched(j) == j.attempts > 0 /\ j.status # PROCESSING /\ j.locked_by = 0

C17_UnknownTypeTerminal ==
    \A i \in JobIds :
        (jobs[i].task_type \notin TASK_HANDLERS /\ Dispatched(jobs[i])) =>
            /\ jobs[i].status = FAILED
            /\ jobs[i].error_message = "unknown task type"
            /\ jobs[i].attempts = 1

-----------------------------------------------------------------------------
(* From the mailbox to the reply *)

RepliesTo(l) == {r \in DOMAIN replies : replies[r].letter_id = l}

JobsFor(task_type, payload) ==
    {i \in JobIds : jobs[i].task_type = task_type /\ jobs[i].payload = payload}

(* What the pipeline has stored for letter l is consistent: one
   process_letter job; once processed, one reply, with one send_reply job,
   and the suggested deed, if any, pointing at that reply; at most one
   sent_emails row *)
LetterConsistent(l) ==
    /\ letters[l].status \in {"pending", "processed"}
    /\ Cardinality(JobsFor("process_letter", l)) = 1
    /\ letters[l].status = "pending" =>
          /\ RepliesTo(l) = {}
          /\ {k \in DOMAIN wishItems : wishItems[k].letter_id = l} = {}
    /\ letters[l].status = "processed" =>
          /\ Cardinality(RepliesTo(l)) = 1
          /\ \A r \in RepliesTo(l) :
                /\ Cardinality(JobsFor("send_reply", r)) = 1
                /\ Cardinality({d \in DOMAIN deeds :
                                   deeds[d].suggested_in_reply_id = r}) =
                      (IF replies[r].suggested_deed THEN 1 ELSE 0)
                /\ Cardinality({k \in DOMAIN sentEmails :
                                   sentEmails[k].santa_reply_id = r}) <= 1
                /\ replies[r].delivery_status \in {"pending", "sent"}

(* The message has been answered: its one letter is processed, the one
   reply is sent, and one sent_emails row of type letter_reply records it *)
Answered(id) ==
    /\ Cardinality(LettersWith(id)) = 1
    /\ \A l \in LettersWith(id) :
          /\ letters[l].status = "processed"
          /\ LetterConsistent(l)
          /\ \A r \in RepliesTo(l) :
                /\ replies[r].delivery_status = "sent"
                /\ Cardinality(SentRows(r)) = 1
                /\ \A i \in JobsFor("send_reply", r) :
                      jobs[i].status = COMPLETED

(* The message is in the mailbox and a fetch is still to run over it *)
Waiting(m) ==
    /\ \E k \in DOMAIN inbox : inbox[k] = m
    /\ FetchJobExists \/ jobs = <<>>

(* C18: with the scheduler and one worker running and every collaborator
   succeeding, a message from a registered child that a fetch is still to
   run over eventually has one letter, processed, with its wish items, one
   reply, the suggested deed pointing at that reply, one send_reply job,
   and in the end the reply sent with exactly one letter_reply sent_emails
   row; and it stays so. *)
C18_EndToEnd ==
    /\ [](\A l \in DOMAIN letters : LetterConsistent(l))
    /\ \A m \in Messages :
          (m.from_child \in Children /\ Waiting(m)) ~> Answered(m.message_id)
    /\ [][\A m \in Messages :
             Answered(m.message_id) => Answered(m.message_id)']_vars

(* A letter mentioning a bicycle has been processed into a wish item, a
   reply and a suggested deed, and the reply has been sent *)
C18_Witness ==
    /\ Answered("m1")
    /\ \E k \in DOMAIN wishItems : wishItems[k].raw_text = "a bicycle"
    /\ \E r \in DOMAIN replies : replies[r].suggested_deed
    /\ Len(deeds) = 1 /\ Len(sentEmails) = 1 /\ Len(wishItems) = 1

-----------------------------------------------------------------------------
(* Shutdown *)

Stopped(w) == worker[w].pc = "stopped"

(* A worker's loop exits only with the flag set and only at the end of an
   iteration: after complete_job of the job it had in flight, or after the
   sleep of an iteration that found no job. *)
ExitStep(w) ==
    (~Stopped(w) /\ Stopped(w)') =>
        /\ shutdown_requested
        /\ worker[w].pc \in {"executing", "sleep"}
        /\ worker[w].pc = "executing" =>
              /\ jobs'[worker[w].job].status # PROCESSING
              /\ jobs'[worker[w].job].completed_at

(* No job is processing without a running worker that executes it *)
NoneAbandoned ==
    \A i \in JobIds :
        jobs[i].status = PROCESSING =>
            \E w \in Workers : Executing(w, i) /\ ~Stopped(w)

(* C19 (as the claim states it): once the termination flag is set a worker
   loop claims no new job; a job in flight is carried through its handler
   to complete_job before the loop exits; no job is left processing because
   of a shutdown request. *)
C19_NoClaimAfterFlag ==
    /\ []NoneAbandoned
    /\ [][\A w \in Workers :
             /\ ExitStep(w)
             /\ shutdown_requested => ~(worker[w].pc = "poll" /\
                                        worker'[w].pc = "claiming")]_vars

(* C19, amended: once the termination flag is set a worker loop begins no
   new iteration: the iteration under way ends in the loop's exit, so a
   loop claims at most the one job whose iteration had begun before the
   flag was set; every job claimed is carried through its handler to
   complete_job before the loop exits; a stopped loop claims nothing; no
   job is left processing; and every loop exits. *)
C19_Shutdown ==
    /\ []NoneAbandoned
    /\ [][\A w \in Workers :
             /\ ExitStep(w)
             /\ Stopped(w) => worker'[w] = worker[w]
             /\ (shutdown_requested /\ worker[w].pc \in {"executing", "sleep"}
                   /\ worker'[w].pc # worker[w].pc) => Stopped(w)']_vars
    /\ shutdown_requested ~> (\A w \in Workers : Stopped(w))
    /\ [][shutdown_requested => shutdown_requested']_vars

(* After the signal both loops have exited: a job is completed, a raising
   job is pending with an attempt used, and a job was never claimed *)
C19_Witness ==
    /\ shutdown_requested
    /\ \A w \in Workers : Stopped(w)
    /\ \E i \in JobIds : jobs[i].status = COMPLETED
    /\ \E i \in JobIds : jobs[i].status = PENDING /\ jobs[i].attempts = 1
    /\ \E i \in JobIds : jobs[i].status = PENDING /\ jobs[i].claims = 0

-----------------------------------------------------------------------------
(* Read-only users *)

StoredData ==
    <<children, family, deeds, wishItems, letters, replies, deleted, jobs>>

ModifyingEndpoints ==
    {"create_child", "update_child", "delete_child", "update_family",
     "create_good_deed", "complete_good_deed", "update_wish_item"}

(* A read that finds what it asks for *)
ReadFinds(r) ==
    \/ r.endpoint = "list_children"
    \/ r.endpoint = "get_family" /\ family # NoFamily
    \/ r.endpoint = "get_child" /\ r.arg \in get_family_child_ids
    \/ r.endpoint \in ListEndpoints /\ r.arg = NoId

(* C20: for a user with is_readonly, every modifying endpoint (create,
   update, delete child; update family; create, complete deed; update wish
   item) answers 403 and leaves the stored data unchanged, and the GET
   endpoints still succeed. *)
C20_ReadonlyUser ==
    [][is_readonly =>
         /\ StoredData' = StoredData
         /\ response'.endpoint \in ModifyingEndpoints =>
                response'.status = 403
         /\ ReadFinds(response') => response'.status = 200]_vars

-----------------------------------------------------------------------------
(* The fan-out of jobs *)

(* C21: after any sequence of fetch_emails, process_letter and send_reply
   executions, failures and retries included, every letter is referenced by
   exactly one process_letter job and every reply by exactly one send_reply
   job. *)
C21_OneJobEach ==
    /\ \A l \in DOMAIN letters :
          Cardinality(JobsFor("process_letter", l)) = 1
    /\ \A r \in DOMAIN replies :
          Cardinality(JobsFor("send_reply", r)) = 1

-----------------------------------------------------------------------------
(* Jobs that run at the same time *)

(* C22: no two jobs that are processing at the same time read and then
   write the same row; in particular two process_letter jobs for two
   letters of one child never both select and stamp the same completed,
   unacknowledged deed: a deed that a reply has acknowledged is not stamped
   again with another reply. *)
C22_NoSharedDeed ==
    [][\A d \in DOMAIN deeds :
          deeds[d].acknowledged_in_reply_id # NoId =>
              deeds'[d].acknowledged_in_reply_id =
                  deeds[d].acknowledged_in_reply_id]_vars

-----------------------------------------------------------------------------
(* The audit trail of dispatch attempts *)

(* What a send handler's run decided: the classifier refused the text, or
   the transport took it, or the transport failed *)
Outcome(run) ==
    CASE run.transport = "ok" -> "sent"
      [] run.transport = "failed" -> "failed"
      [] OTHER -> "blocked"

(* C23: every run of a send handler that reaches the decision to dispatch
   or not appends exactly one sent_emails row, whose status is the outcome
   of the attempt (sent, blocked or failed); and no step of the pipeline
   changes or removes a row that is there. *)
C23_Step ==
    /\ Len(sentEmails') >= Len(sentEmails)
    /\ SubSeq(sentEmails', 1, Len(sentEmails)) = sentEmails
    /\ \A w \in Workers :
          (/\ worker[w].pc = "executing"
           /\ worker'[w].pc # "executing"
           /\ lastRun'.task \in SendTasks
           /\ (lastRun'.checked # "none" \/ lastRun'.sent # "none")) =>
              /\ Len(sentEmails') = Len(sentEmails) + 1
              /\ sentEmails'[Len(sentEmails')].delivery_status =
                     Outcome(lastRun')

C23_AuditEveryAttempt == [][C23_Step]_vars

-----------------------------------------------------------------------------
(* The life of a letter *)

(* What one run of handle_process_letter may do to a letter's status if
   the status only moves pending -> processing -> processed or failed:
   the run commits processing first and may end there, or go on *)
LetterMove(a, b) ==
    \/ a = b
    \/ a = "pending" /\ b \in {"processing", "processed", "failed"}
    \/ a = "processing" /\ b \in {"processed", "failed"}

(* C24: under any sequence of process_letter executions, retries of the job
   included, a letter's status only moves from pending to processing and
   from processing to processed or to failed; it never leaves processed. *)
C24_Step ==
    \A l \in DOMAIN letters :
        /\ l \in DOMAIN letters'
        /\ LetterMove(letters[l].status, letters'[l].status)

C24_LetterStatus == [][C24_Step]_vars

-----------------------------------------------------------------------------
(* Notifications to the parent *)

(* C25: a failure to record a parent notification (notify_new_letter in
   fetch_emails, notify_moderation_flag in process_letter) does not abort
   the handler: no run ends by raising the notification's error, and every
   letter that a fetch_emails run has stored has its process_letter job
   when the run is over. *)
C25_Step ==
    (\E w \in Workers : /\ worker[w].pc = "executing"
                        /\ worker'[w].pc # "executing"
                        /\ lastRun'.task \in {"fetch_emails", "process_letter"})
    =>
        /\ ~(lastRun'.raised /\ lastRun'.error = "notification failed")
        /\ lastRun'.task = "fetch_emails" =>
              \A l \in (DOMAIN letters') \ DOMAIN letters :
                  JobsFor("process_letter", l)' # {}

C25_NotificationBestEffort == [][C25_Step]_vars

-----------------------------------------------------------------------------
(* Jobs whose worker has gone *)

Crashed(w) == worker[w].pc = "crashed"

(* Job i was claimed by a worker that stopped before complete_job *)
Abandoned(i) ==
    \E w \in Workers : Crashed(w) /\ worker[w].job = i

(* C28: a job claimed by a worker that stops before it calls complete_job
   stays in processing for ever: the row is processing, no step changes it,
   and no claim of any worker returns it. *)
C28_Step ==
    \A i \in JobIds :
        Abandoned(i) =>
            /\ jobs[i].status = PROCESSING
            /\ jobs'[i] = jobs[i]
            /\ \A v \in Workers : worker'[v].job = i => Crashed(v)

C28_StuckProcessing == [][C28_Step]_vars

(* A worker has crashed with job 1, and the other worker has since taken a
   later job through all its attempts *)
C28_Witness ==
    /\ Abandoned(1)
    /\ \E i \in JobIds : i > 1 /\ jobs[i].status = FAILED

-----------------------------------------------------------------------------
(* The scheduler's liveness *)

(* A fetch_emails job whose worker stopped before complete_job *)
FetchJobAbandoned ==
    \E i \in JobIds : jobs[i].task_type = "fetch_emails" /\ Abandoned(i)

(* The queue of the model is full: the loops are not followed further *)
QueueFull == Len(jobs) >= MaxJobs

(* C26, as claimed: while the scheduler loop and at least one worker keep
   running, no state is reached from which the scheduler never enqueues a
   fetch_emails job again: the scheduler, at its query, always comes to
   enqueue once more. *)
C26_AlwaysEnqueuesAgain ==
    (sched = "query" /\ ~QueueFull) ~> (sched = "enqueue" \/ QueueFull)

(* One step of the scheduler: it goes on to enqueue only when its query
   found no fetch_emails job pending or processing, it then adds exactly
   one fetch_emails job, pending, with the scheduler's priority, above the
   default; and while a fetch_emails job is abandoned in processing its
   query never lets it enqueue. *)
C26_Step ==
    /\ (sched = "query" /\ sched' = "enqueue") => ~FetchJobExists
    /\ (sched = "enqueue" /\ sched' = "query") =>
          /\ Len(jobs') = Len(jobs) + 1
          /\ SubSeq(jobs', 1, Len(jobs)) = jobs
          /\ jobs'[Len(jobs')].task_type = "fetch_emails"
          /\ jobs'[Len(jobs')].status = PENDING
          /\ jobs'[Len(jobs')].priority = SchedulerPriority
          /\ SchedulerPriority > DefaultPriority
    /\ FetchJobAbandoned => (sched = "query" /\ sched' = "query")

(* C26, amended: every scheduler cycle that finds no fetch_emails job
   pending or processing enqueues exactly one, with elevated priority;
   while the scheduler loop and a worker keep running the scheduler comes
   to enqueue again, unless a fetch_emails job was claimed by a worker that
   stopped before complete_job: that job stays processing, and from then on
   the scheduler never enqueues again. *)
C26_SchedulerLiveness ==
    /\ [][C26_Step]_vars
    /\ (sched = "query" /\ ~QueueFull) ~>
           (sched = "enqueue" \/ QueueFull \/ FetchJobAbandoned)

(* The scheduler has gone round twice (its first job is completed), its
   second job is abandoned in processing, and the worker that is left has
   since taken a later job to its end *)
C26_Witness ==
    /\ FetchJobAbandoned
    /\ \E i \in JobIds : /\ jobs[i].task_type = "fetch_emails"
                         /\ jobs[i].status = COMPLETED
    /\ \E i \in JobIds : /\ jobs[i].task_type # "fetch_emails"
                         /\ jobs[i].status = FAILED

-----------------------------------------------------------------------------
(* Starvation *)

StarveIds == 1..MaxStarveJobs

Pending(i) == i \in JobIds /\ Eligible(jobs[i])

Claimed(i) == i \in JobIds /\ jobs[i].status = PROCESSING

(* C27, as claimed: every pending job with attempts < max_attempts and
   scheduled_for <= now is eventually claimed while the workers keep
   looping, whatever other jobs keep entering the queue. *)
C27_EventuallyClaimed ==
    \A i \in StarveIds : Pending(i) ~> Claimed(i)

(* A step inserts a row that the claim order does not put after job i:
   one of higher priority, or of the same priority and not created later *)
EntersAhead(i) ==
    /\ i \in JobIds
    /\ \E k \in StarveIds :
          /\ k # i
          /\ k \in DOMAIN jobs'
          /\ k \notin JobIds \/ Terminal(jobs[k])
          /\ jobs'[k].status = PENDING
          /\ ~Before(jobs[i], jobs'[k])

(* C27, amended: every pending job with attempts < max_attempts and
   scheduled_for <= now is eventually claimed while the workers keep
   looping, provided that from some moment on no job enters the queue
   that the claim order does not put after it; retries of failing jobs
   then cannot keep it waiting, for they end after max_attempts. *)
C27_ClaimedUnlessOvertaken ==
    \A i \in StarveIds :
        <>[][~EntersAhead(i)]_vars => (Pending(i) ~> Claimed(i))

(* The queue is full, and a job of the default priority is still waiting
   for its first claim while every other row is a manual trigger that
   entered after it and has been claimed *)
C27_Witness ==
    \E i \in JobIds :
        /\ Len(jobs) = MaxStarveJobs
        /\ Pending(i) /\ jobs[i].claims = 0
        /\ jobs[i].priority = DefaultPriority
        /\ \A k \in JobIds \ {i} :
              /\ jobs[k].priority = TriggerPriority
              /\ jobs[k].created_at > jobs[i].created_at
              /\ jobs[k].claims > 0

-----------------------------------------------------------------------------
(* One reply per letter *)

(* C29: a letter never has more than one reply, whatever the number of
   process_letter executions for it: a retry that comes after the reply
   was stored adds no second one. *)
C29_OneReplyPerLetter ==
    \A l \in DOMAIN letters : Cardinality(RepliesTo(l)) <= 1

(* A retry of the job of letter 2 was stopped by the unique constraint: the
   job has been claimed more than once, its last run raised IntegrityError,
   and the letter has its one reply *)
C29_Witness ==
    /\ lastRun.task = "process_letter"
    /\ lastRun.raised /\ lastRun.error = "IntegrityError"
    /\ \E i \in JobIds : /\ jobs[i].task_type = "process_letter"
                         /\ jobs[i].payload = 2
                         /\ jobs[i].attempts > 1
    /\ Cardinality(RepliesTo(2)) = 1

-----------------------------------------------------------------------------
(* Wish items of a letter that is processed again *)

(* The wish item rows of letter l with the text raw_text *)
WishItemsOf(l, raw_text) ==
    {k \in DOMAIN wishItems : /\ wishItems[k].letter_id = l
                              /\ wishItems[k].raw_text = raw_text}

(* C30: every execution of process_letter that passes the extraction step
   inserts the extracted wish items again: after k such executions for a
   letter, each extracted item is there k times for that letter. *)
C30_WishItemsRepeated ==
    \A i \in JobIds :
        (jobs[i].task_type = "process_letter"
            /\ jobs[i].payload \in DOMAIN letters) =>
            \A n \in DOMAIN LetterItems :
                Cardinality(WishItemsOf(jobs[i].payload, LetterItems[n]))
                    = jobs[i].calls

(* The job of letter 2 has been through its three attempts, each passing
   the extraction step, and each of the two items is stored three times *)
C30_Witness ==
    /\ \E i \in JobIds : /\ jobs[i].task_type = "process_letter"
                         /\ jobs[i].payload = 2
                         /\ jobs[i].calls = DefaultMaxAttempts
    /\ \A n \in DOMAIN LetterItems :
          Cardinality(WishItemsOf(2, LetterItems[n])) = DefaultMaxAttempts

====
